---- MODULE Spec2Model ----
(***************************************************************************)
(* Model of the concentrated-liquidity pool engine of uni-ui:              *)
(* src/src/core/SwapMath.ts (SwapMath.computeSwapStep and the VirtualPool  *)
(* class), src/src/core/SqrtPriceMath.ts (SqrtPriceMath, FullMath),        *)
(* src/src/core/types.ts (LiquidityMath, maxLiquidityForAmounts,           *)
(* priceUtils) and the TickMath reference of src/unnamed/part_005.         *)
(*                                                                         *)
(* Word sizes.  The program computes on arbitrary-precision integers of up *)
(* to 256 bits; TLC's integers have 32.  Every fixed-point width of the    *)
(* program is therefore reduced and the algorithms are kept as they are    *)
(* written:                                                                *)
(*     Q32  = 2^32   is modelled as 2^4                                    *)
(*     Q96  = 2^96   is modelled as 2^8                                    *)
(*     Q128 = 2^128  is modelled as 2^12                                   *)
(*     2^256 - 1     is modelled as 2^24 - 1                               *)
(*     1.0001 (price ratio of one tick) is modelled as 1.21, so that       *)
(*     sqrt(1.0001) is 1.1, and the tick domain is [-8, 8]; the ladder of  *)
(*     getSqrtRatioAtTick has one constant per bit of |tick|, each equal   *)
(*     to Q128 / 1.1^(2^k), as in the program.                             *)
(*     priceToSqrtPriceX96 scales by 10^4 (program: 10^18).                *)
(* MAX_FEE keeps its value 1000000.                                        *)
(***************************************************************************)
EXTENDS Integers, Sequences, FiniteSets, TLC

(* ------------------------------------------------------------------ *)
(* constants.ts                                                        *)
(* ------------------------------------------------------------------ *)
Q32 == 16
Q96 == 256
Q128 == 4096
MaxUint160 == 1048575
MaxUint256 == 16777215
MAX_FEE == 1000000
MIN_TICK == -8
MAX_TICK == 8
MIN_SQRT_RATIO == 120
MAX_SQRT_RATIO == 549

\* a returned value, and a thrown Error
Return(v) == [thrown |-> FALSE, value |-> v]
Throw == [thrown |-> TRUE, value |-> 0]

\* const x = v; Op(x): the value of v is computed once and then used by Op
Const(v, Op(_)) == CHOOSE r \in {Op(x) : x \in {v}} : TRUE

(* ------------------------------------------------------------------ *)
(* FullMath                                                            *)
(* ------------------------------------------------------------------ *)
mulDiv(a, b, denominator) == (a * b) \div denominator

mulDivRoundingUp(a, b, denominator) ==
  LET product == a * b
      result == product \div denominator
  IN IF product % denominator # 0 THEN result + 1 ELSE result

(* ------------------------------------------------------------------ *)
(* TickMath                                                            *)
(* ------------------------------------------------------------------ *)
\* bit k of a non-negative integer: (x & (1 << k)) !== 0
BitSet(x, k) == (x \div (2 ^ k)) % 2 = 1

\* the ladder of magic constants, one per bit of absTick: Q128 / 1.1^(2^k)
TickLadder == <<3724, 3385, 2798, 1911>>

getSqrtRatioAtTick(tick) ==
  LET absTick == IF tick < 0 THEN -tick ELSE tick
      r0 == IF BitSet(absTick, 0) THEN TickLadder[1] ELSE Q128
      r1 == IF BitSet(absTick, 1) THEN (r0 * TickLadder[2]) \div Q128 ELSE r0
      r2 == IF BitSet(absTick, 2) THEN (r1 * TickLadder[3]) \div Q128 ELSE r1
      r3 == IF BitSet(absTick, 3) THEN (r2 * TickLadder[4]) \div Q128 ELSE r2
      ratio == IF tick > 0 THEN MaxUint256 \div r3 ELSE r3
  IN (ratio \div Q32) + (IF ratio % Q32 = 0 THEN 0 ELSE 1)

mostSignificantBit(x) ==
  LET s16 == IF x >= 65536 THEN 16 ELSE 0
      x16 == x \div (2 ^ s16)
      s8 == IF x16 >= 256 THEN 8 ELSE 0
      x8 == x16 \div (2 ^ s8)
      s4 == IF x8 >= 16 THEN 4 ELSE 0
      x4 == x8 \div (2 ^ s4)
      s2 == IF x4 >= 4 THEN 2 ELSE 0
      x2 == x4 \div (2 ^ s2)
      s1 == IF x2 >= 2 THEN 1 ELSE 0
  IN s16 + s8 + s4 + s2 + s1

\* number of fractional bits of log_2 and of squaring rounds (program: 64, 14)
Log2FracBits == 6

\* one round of the square-and-shift loop: <<r, log_2>> after round i
RECURSIVE Log2Rounds(_, _, _)
Log2Rounds(r, log_2, i) ==
  IF i = Log2FracBits THEN log_2
  ELSE LET sq == (r * r) \div (2 ^ 11)
           f == sq \div Q128
       IN Log2Rounds(sq \div (2 ^ f), log_2 + f * (2 ^ (Log2FracBits - 1 - i)), i + 1)

\* 2^8 / log2(1.1), and the two correction terms, in units of 2^-14 tick
LogSqrtBaseFactor == 1862
TickLowCorrection == 163
TickHighCorrection == 2458

\* getTickAtSqrtRatio with a fault: the lower candidate is returned without looking at
\* the ratio of the higher one
getTickAtSqrtRatio_Low(sqrtRatioX96) ==
  IF sqrtRatioX96 < MIN_SQRT_RATIO \/ sqrtRatioX96 >= MAX_SQRT_RATIO THEN Throw
  ELSE
  LET sqrtRatioX128 == sqrtRatioX96 * Q32
      msb == mostSignificantBit(sqrtRatioX128)
      r == IF msb >= 12 THEN sqrtRatioX128 \div (2 ^ (msb - 11))
           ELSE sqrtRatioX128 * (2 ^ (11 - msb))
      log_2 == Log2Rounds(r, (msb - 12) * (2 ^ Log2FracBits), 0)
      log_sqrt10001 == log_2 * LogSqrtBaseFactor
      tickLow == (log_sqrt10001 - TickLowCorrection) \div (2 ^ 14)
      tickHigh == (log_sqrt10001 + TickHighCorrection) \div (2 ^ 14)
  IN Return(tickLow)

getTickAtSqrtRatio(sqrtRatioX96) ==
  IF sqrtRatioX96 < MIN_SQRT_RATIO \/ sqrtRatioX96 >= MAX_SQRT_RATIO THEN Throw
  ELSE
  LET sqrtRatioX128 == sqrtRatioX96 * Q32
      msb == mostSignificantBit(sqrtRatioX128)
      r == IF msb >= 12 THEN sqrtRatioX128 \div (2 ^ (msb - 11))
           ELSE sqrtRatioX128 * (2 ^ (11 - msb))
      log_2 == Log2Rounds(r, (msb - 12) * (2 ^ Log2FracBits), 0)
      log_sqrt10001 == log_2 * LogSqrtBaseFactor
      tickLow == (log_sqrt10001 - TickLowCorrection) \div (2 ^ 14)
      tickHigh == (log_sqrt10001 + TickHighCorrection) \div (2 ^ 14)
  IN IF tickLow = tickHigh THEN Return(tickLow)
     ELSE IF getSqrtRatioAtTick(tickHigh) <= sqrtRatioX96 THEN Return(tickHigh)
     ELSE Return(tickLow)

(* ------------------------------------------------------------------ *)
(* SqrtPriceMath                                                       *)
(* ------------------------------------------------------------------ *)
multiplyIn256(a, b) == (a * b) % (MaxUint256 + 1)

addIn256(a, b) == (a + b) % (MaxUint256 + 1)

getAmount0Delta(sqrtRatioAX96, sqrtRatioBX96, liquidity, roundUp) ==
  LET sqrtA == IF sqrtRatioAX96 > sqrtRatioBX96 THEN sqrtRatioBX96 ELSE sqrtRatioAX96
      sqrtB == IF sqrtRatioAX96 > sqrtRatioBX96 THEN sqrtRatioAX96 ELSE sqrtRatioBX96
      numerator1 == liquidity * Q96
      numerator2 == sqrtB - sqrtA
  IN IF roundUp
     THEN mulDivRoundingUp(mulDivRoundingUp(numerator1, numerator2, sqrtB), 1, sqrtA)
     ELSE ((numerator1 * numerator2) \div sqrtB) \div sqrtA

getAmount1Delta(sqrtRatioAX96, sqrtRatioBX96, liquidity, roundUp) ==
  LET sqrtA == IF sqrtRatioAX96 > sqrtRatioBX96 THEN sqrtRatioBX96 ELSE sqrtRatioAX96
      sqrtB == IF sqrtRatioAX96 > sqrtRatioBX96 THEN sqrtRatioAX96 ELSE sqrtRatioBX96
  IN IF roundUp
     THEN mulDivRoundingUp(liquidity, sqrtB - sqrtA, Q96)
     ELSE (liquidity * (sqrtB - sqrtA)) \div Q96

getNextSqrtPriceFromAmount0RoundingUp(sqrtPX96, liquidity, amount, add) ==
  IF amount = 0 THEN Return(sqrtPX96)
  ELSE
    LET numerator1 == liquidity * Q96
        product == multiplyIn256(amount, sqrtPX96)
    IN IF add
       THEN IF product \div amount = sqrtPX96
               /\ addIn256(numerator1, product) >= numerator1
            THEN Return(mulDivRoundingUp(numerator1, sqrtPX96, addIn256(numerator1, product)))
            ELSE Return(mulDivRoundingUp(numerator1, 1, (numerator1 \div sqrtPX96) + amount))
       ELSE IF product \div amount # sqrtPX96 THEN Throw
            ELSE IF ~(numerator1 > product) THEN Throw
            ELSE Return(mulDivRoundingUp(numerator1, sqrtPX96, numerator1 - product))

getNextSqrtPriceFromAmount1RoundingDown(sqrtPX96, liquidity, amount, add) ==
  IF add
  THEN LET quotient == IF amount <= MaxUint160
                       THEN (amount * Q96) \div liquidity
                       ELSE mulDiv(amount, Q96, liquidity)
       IN Return(sqrtPX96 + quotient)
  ELSE LET quotient == mulDivRoundingUp(amount, Q96, liquidity)
       IN IF ~(sqrtPX96 > quotient) THEN Throw
          ELSE Return(sqrtPX96 - quotient)

\* getNextSqrtPriceFromInput with a fault: the two directions are exchanged
getNextSqrtPriceFromInput_Swapped(sqrtPX96, liquidity, amountIn, zeroForOne) ==
  IF sqrtPX96 <= 0 THEN Throw
  ELSE IF liquidity <= 0 THEN Throw
  ELSE IF zeroForOne
       THEN getNextSqrtPriceFromAmount1RoundingDown(sqrtPX96, liquidity, amountIn, TRUE)
       ELSE getNextSqrtPriceFromAmount0RoundingUp(sqrtPX96, liquidity, amountIn, TRUE)

getNextSqrtPriceFromInput(sqrtPX96, liquidity, amountIn, zeroForOne) ==
  IF sqrtPX96 <= 0 THEN Throw
  ELSE IF liquidity <= 0 THEN Throw
  ELSE IF zeroForOne
       THEN getNextSqrtPriceFromAmount0RoundingUp(sqrtPX96, liquidity, amountIn, TRUE)
       ELSE getNextSqrtPriceFromAmount1RoundingDown(sqrtPX96, liquidity, amountIn, TRUE)

getNextSqrtPriceFromOutput(sqrtPX96, liquidity, amountOut, zeroForOne) ==
  IF sqrtPX96 <= 0 THEN Throw
  ELSE IF liquidity <= 0 THEN Throw
  ELSE IF zeroForOne
       THEN getNextSqrtPriceFromAmount1RoundingDown(sqrtPX96, liquidity, amountOut, FALSE)
       ELSE getNextSqrtPriceFromAmount0RoundingUp(sqrtPX96, liquidity, amountOut, FALSE)

(* ------------------------------------------------------------------ *)
(* SwapMath                                                            *)
(* ------------------------------------------------------------------ *)
StepThrow ==
  [thrown |-> TRUE, sqrtRatioNextX96 |-> 0, amountIn |-> 0, amountOut |-> 0, feeAmount |-> 0]

\* SwapStepAmounts with a fault: the fee is always computed forward from amountIn
SwapStepAmounts_FeeForward(sqrtRatioCurrentX96, sqrtRatioTargetX96, liquidity, amountRemaining, feePips, sqrtRatioNextX96, amountInMax, amountOutMax) ==
  LET zeroForOne == sqrtRatioCurrentX96 >= sqrtRatioTargetX96
      exactIn == amountRemaining >= 0
      max == sqrtRatioTargetX96 = sqrtRatioNextX96
      amountIn ==
        IF max /\ exactIn THEN amountInMax
        ELSE IF zeroForOne
             THEN getAmount0Delta(sqrtRatioNextX96, sqrtRatioCurrentX96, liquidity, TRUE)
             ELSE getAmount1Delta(sqrtRatioCurrentX96, sqrtRatioNextX96, liquidity, TRUE)
      amountOutRaw ==
        IF max /\ ~exactIn THEN amountOutMax
        ELSE IF zeroForOne
             THEN getAmount1Delta(sqrtRatioNextX96, sqrtRatioCurrentX96, liquidity, FALSE)
             ELSE getAmount0Delta(sqrtRatioCurrentX96, sqrtRatioNextX96, liquidity, FALSE)
      amountOut ==
        IF ~exactIn /\ amountOutRaw > -amountRemaining THEN -amountRemaining ELSE amountOutRaw
  IN IF MAX_FEE - feePips = 0 THEN StepThrow
     ELSE [thrown |-> FALSE, sqrtRatioNextX96 |-> sqrtRatioNextX96,
           amountIn |-> amountIn, amountOut |-> amountOut,
           feeAmount |-> mulDivRoundingUp(amountIn, feePips, MAX_FEE - feePips)]

\* lines 84-125 of computeSwapStep: the amounts and the fee, once the next price is known;
\* amountInMax and amountOutMax are the amounts computed before for the whole way to the target
SwapStepAmounts(sqrtRatioCurrentX96, sqrtRatioTargetX96, liquidity, amountRemaining, feePips, sqrtRatioNextX96, amountInMax, amountOutMax) ==
  LET zeroForOne == sqrtRatioCurrentX96 >= sqrtRatioTargetX96
      exactIn == amountRemaining >= 0
      max == sqrtRatioTargetX96 = sqrtRatioNextX96
      amountIn ==
        IF max /\ exactIn THEN amountInMax
        ELSE IF zeroForOne
             THEN getAmount0Delta(sqrtRatioNextX96, sqrtRatioCurrentX96, liquidity, TRUE)
             ELSE getAmount1Delta(sqrtRatioCurrentX96, sqrtRatioNextX96, liquidity, TRUE)
      amountOutRaw ==
        IF max /\ ~exactIn THEN amountOutMax
        ELSE IF zeroForOne
             THEN getAmount1Delta(sqrtRatioNextX96, sqrtRatioCurrentX96, liquidity, FALSE)
             ELSE getAmount0Delta(sqrtRatioCurrentX96, sqrtRatioNextX96, liquidity, FALSE)
      amountOut ==
        IF ~exactIn /\ amountOutRaw > -amountRemaining THEN -amountRemaining ELSE amountOutRaw
      remainderAsFee == exactIn /\ sqrtRatioNextX96 # sqrtRatioTargetX96
      feeAmount ==
        IF remainderAsFee
        THEN amountRemaining - amountIn
        ELSE mulDivRoundingUp(amountIn, feePips, MAX_FEE - feePips)
  \* JSBI.divide and JSBI.remainder throw a RangeError for a zero divisor
  IN IF ~remainderAsFee /\ MAX_FEE - feePips = 0 THEN StepThrow
     ELSE [thrown |-> FALSE, sqrtRatioNextX96 |-> sqrtRatioNextX96,
           amountIn |-> amountIn, amountOut |-> amountOut, feeAmount |-> feeAmount]

\* fault: the target is reached only when the input strictly exceeds what the range takes
computeSwapStep_StrictReach(sqrtRatioCurrentX96, sqrtRatioTargetX96, liquidity, amountRemaining, feePips) ==
  LET zeroForOne == sqrtRatioCurrentX96 >= sqrtRatioTargetX96
      exactIn == amountRemaining >= 0
      amountRemainingLessFee == (amountRemaining * (MAX_FEE - feePips)) \div MAX_FEE
      amountInMax ==
        IF zeroForOne
        THEN getAmount0Delta(sqrtRatioTargetX96, sqrtRatioCurrentX96, liquidity, TRUE)
        ELSE getAmount1Delta(sqrtRatioCurrentX96, sqrtRatioTargetX96, liquidity, TRUE)
      amountOutMax ==
        IF zeroForOne
        THEN getAmount1Delta(sqrtRatioTargetX96, sqrtRatioCurrentX96, liquidity, FALSE)
        ELSE getAmount0Delta(sqrtRatioCurrentX96, sqrtRatioTargetX96, liquidity, FALSE)
      next ==
        IF exactIn
        THEN IF amountRemainingLessFee > amountInMax
             THEN Return(sqrtRatioTargetX96)
             ELSE getNextSqrtPriceFromInput(sqrtRatioCurrentX96, liquidity,
                                            amountRemainingLessFee, zeroForOne)
        ELSE IF -amountRemaining >= amountOutMax
             THEN Return(sqrtRatioTargetX96)
             ELSE getNextSqrtPriceFromOutput(sqrtRatioCurrentX96, liquidity,
                                             -amountRemaining, zeroForOne)
  IN IF next.thrown THEN StepThrow
     ELSE SwapStepAmounts(sqrtRatioCurrentX96, sqrtRatioTargetX96, liquidity, amountRemaining,
                          feePips, next.value, amountInMax, amountOutMax)

computeSwapStep(sqrtRatioCurrentX96, sqrtRatioTargetX96, liquidity, amountRemaining, feePips) ==
  LET zeroForOne == sqrtRatioCurrentX96 >= sqrtRatioTargetX96
      exactIn == amountRemaining >= 0
      amountRemainingLessFee == (amountRemaining * (MAX_FEE - feePips)) \div MAX_FEE
      amountInMax ==
        IF zeroForOne
        THEN getAmount0Delta(sqrtRatioTargetX96, sqrtRatioCurrentX96, liquidity, TRUE)
        ELSE getAmount1Delta(sqrtRatioCurrentX96, sqrtRatioTargetX96, liquidity, TRUE)
      amountOutMax ==
        IF zeroForOne
        THEN getAmount1Delta(sqrtRatioTargetX96, sqrtRatioCurrentX96, liquidity, FALSE)
        ELSE getAmount0Delta(sqrtRatioCurrentX96, sqrtRatioTargetX96, liquidity, FALSE)
      next ==
        IF exactIn
        THEN IF amountRemainingLessFee >= amountInMax
             THEN Return(sqrtRatioTargetX96)
             ELSE getNextSqrtPriceFromInput(sqrtRatioCurrentX96, liquidity,
                                            amountRemainingLessFee, zeroForOne)
        ELSE IF -amountRemaining >= amountOutMax
             THEN Return(sqrtRatioTargetX96)
             ELSE getNextSqrtPriceFromOutput(sqrtRatioCurrentX96, liquidity,
                                             -amountRemaining, zeroForOne)
  IN IF next.thrown THEN StepThrow
     ELSE SwapStepAmounts(sqrtRatioCurrentX96, sqrtRatioTargetX96, liquidity, amountRemaining,
                          feePips, next.value, amountInMax, amountOutMax)

(* ------------------------------------------------------------------ *)
(* The VirtualPool of contracts-test/test/pool-swap-comparison.test.js *)
(* (BigInt arithmetic; the class is written out twice, identically)    *)
(* ------------------------------------------------------------------ *)
\* a / b on BigInt: the quotient is truncated towards zero (b is not zero)
bigIntDiv(a, b) ==
  LET absA == IF a < 0 THEN -a ELSE a
      absB == IF b < 0 THEN -b ELSE b
  IN IF (a < 0) = (b < 0) THEN absA \div absB ELSE -(absA \div absB)

\* a division by 0n throws a RangeError
jsGetAmount0Delta(sqrtRatioAX96, sqrtRatioBX96, liquidity, roundUp) ==
  LET sqrtA == IF sqrtRatioAX96 > sqrtRatioBX96 THEN sqrtRatioBX96 ELSE sqrtRatioAX96
      sqrtB == IF sqrtRatioAX96 > sqrtRatioBX96 THEN sqrtRatioAX96 ELSE sqrtRatioBX96
      numerator1 == liquidity * Q96
      numerator2 == sqrtB - sqrtA
  IN IF sqrtB = 0 \/ sqrtA = 0 THEN Throw
     ELSE IF roundUp
     THEN LET temp == bigIntDiv(numerator1 * numerator2 + sqrtB - 1, sqrtB)
          IN Return(bigIntDiv(temp + sqrtA - 1, sqrtA))
     ELSE Return(bigIntDiv(bigIntDiv(numerator1 * numerator2, sqrtB), sqrtA))

jsGetAmount1Delta(sqrtRatioAX96, sqrtRatioBX96, liquidity, roundUp) ==
  LET sqrtA == IF sqrtRatioAX96 > sqrtRatioBX96 THEN sqrtRatioBX96 ELSE sqrtRatioAX96
      sqrtB == IF sqrtRatioAX96 > sqrtRatioBX96 THEN sqrtRatioAX96 ELSE sqrtRatioBX96
  IN IF roundUp
     THEN Return(bigIntDiv(liquidity * (sqrtB - sqrtA) + Q96 - 1, Q96))
     ELSE Return(bigIntDiv(liquidity * (sqrtB - sqrtA), Q96))

jsGetNextSqrtPriceFromInput(sqrtPX96, liquidity, amountIn, zeroForOne) ==
  IF zeroForOne
  THEN LET numerator1 == liquidity * Q96
           product == amountIn * sqrtPX96
           denominator == numerator1 + product
       IN IF denominator = 0 THEN Throw
          ELSE Return(bigIntDiv(numerator1 * sqrtPX96 + denominator - 1, denominator))
  ELSE IF liquidity = 0 THEN Throw
       ELSE Return(sqrtPX96 + bigIntDiv(amountIn * Q96, liquidity))

jsGetNextSqrtPriceFromOutput(sqrtPX96, liquidity, amountOut, zeroForOne) ==
  IF zeroForOne
  THEN IF liquidity = 0 THEN Throw
       ELSE Return(sqrtPX96 - bigIntDiv(amountOut * Q96 + liquidity - 1, liquidity))
  ELSE LET numerator1 == liquidity * Q96
           product == amountOut * sqrtPX96
           denominator == numerator1 - product
       IN IF denominator = 0 THEN Throw
          ELSE Return(bigIntDiv(numerator1 * sqrtPX96 + denominator - 1, denominator))

\* the second half of the method, from `const max`: the amounts and the fee
jsSwapStepAmounts(sqrtRatioCurrentX96, sqrtRatioTargetX96, liquidity, amountRemaining, feePips, sqrtRatioNextX96, amountInMax, amountOutMax) ==
  LET zeroForOne == sqrtRatioCurrentX96 >= sqrtRatioTargetX96
      exactIn == amountRemaining >= 0
      max == sqrtRatioTargetX96 = sqrtRatioNextX96
      amountIn ==
        IF max /\ exactIn THEN amountInMax
        ELSE IF zeroForOne
             THEN jsGetAmount0Delta(sqrtRatioNextX96, sqrtRatioCurrentX96, liquidity, TRUE)
             ELSE jsGetAmount1Delta(sqrtRatioCurrentX96, sqrtRatioNextX96, liquidity, TRUE)
      amountOutRaw ==
        IF max /\ ~exactIn THEN amountOutMax
        ELSE IF zeroForOne
             THEN jsGetAmount1Delta(sqrtRatioNextX96, sqrtRatioCurrentX96, liquidity, FALSE)
             ELSE jsGetAmount0Delta(sqrtRatioCurrentX96, sqrtRatioNextX96, liquidity, FALSE)
      remainderAsFee == exactIn /\ sqrtRatioNextX96 # sqrtRatioTargetX96
  IN IF amountIn.thrown \/ amountOutRaw.thrown THEN StepThrow
     ELSE IF ~remainderAsFee /\ MAX_FEE - feePips = 0 THEN StepThrow
     ELSE [thrown |-> FALSE, sqrtRatioNextX96 |-> sqrtRatioNextX96,
           amountIn |-> amountIn.value,
           amountOut |-> IF ~exactIn /\ amountOutRaw.value > -amountRemaining
                         THEN -amountRemaining ELSE amountOutRaw.value,
           feeAmount |-> IF remainderAsFee
                         THEN amountRemaining - amountIn.value
                         ELSE bigIntDiv(amountIn.value * feePips, MAX_FEE - feePips) + 1]

\* VirtualPool.computeSwapStep of the test file, feePips being this.fee
jsComputeSwapStep(sqrtRatioCurrentX96, sqrtRatioTargetX96, liquidity, amountRemaining, feePips) ==
  LET zeroForOne == sqrtRatioCurrentX96 >= sqrtRatioTargetX96
      exactIn == amountRemaining >= 0
      amountRemainingLessFee == bigIntDiv(amountRemaining * (MAX_FEE - feePips), MAX_FEE)
      amountInMax ==
        IF ~exactIn THEN Return(0)
        ELSE IF zeroForOne
        THEN jsGetAmount0Delta(sqrtRatioTargetX96, sqrtRatioCurrentX96, liquidity, TRUE)
        ELSE jsGetAmount1Delta(sqrtRatioCurrentX96, sqrtRatioTargetX96, liquidity, TRUE)
      amountOutMax ==
        IF exactIn THEN Return(0)
        ELSE IF zeroForOne
        THEN jsGetAmount1Delta(sqrtRatioTargetX96, sqrtRatioCurrentX96, liquidity, FALSE)
        ELSE jsGetAmount0Delta(sqrtRatioCurrentX96, sqrtRatioTargetX96, liquidity, FALSE)
      next ==
        IF exactIn
        THEN IF amountRemainingLessFee >= amountInMax.value
             THEN Return(sqrtRatioTargetX96)
             ELSE jsGetNextSqrtPriceFromInput(sqrtRatioCurrentX96, liquidity,
                                              amountRemainingLessFee, zeroForOne)
        ELSE IF -amountRemaining >= amountOutMax.value
             THEN Return(sqrtRatioTargetX96)
             ELSE jsGetNextSqrtPriceFromOutput(sqrtRatioCurrentX96, liquidity,
                                               -amountRemaining, zeroForOne)
  IN IF liquidity = 0
     THEN [thrown |-> FALSE, sqrtRatioNextX96 |-> sqrtRatioTargetX96,
           amountIn |-> 0, amountOut |-> 0, feeAmount |-> 0]
     ELSE IF amountInMax.thrown \/ amountOutMax.thrown THEN StepThrow
     ELSE IF next.thrown THEN StepThrow
     ELSE jsSwapStepAmounts(sqrtRatioCurrentX96, sqrtRatioTargetX96, liquidity,
                            amountRemaining, feePips, next.value, amountInMax, amountOutMax)

(* ------------------------------------------------------------------ *)
(* LiquidityMath                                                       *)
(* ------------------------------------------------------------------ *)
addDelta(a, b) == IF b < 0 THEN a - (b * (-1)) ELSE a + b

maxLiquidityForAmount0Precise(sqrtRatioAX96, sqrtRatioBX96, amount0) ==
  LET sqrtA == IF sqrtRatioAX96 > sqrtRatioBX96 THEN sqrtRatioBX96 ELSE sqrtRatioAX96
      sqrtB == IF sqrtRatioAX96 > sqrtRatioBX96 THEN sqrtRatioAX96 ELSE sqrtRatioBX96
      numerator == (amount0 * sqrtA) * sqrtB
      denominator == Q96 * (sqrtB - sqrtA)
  IN numerator \div denominator

maxLiquidityForAmount0Imprecise(sqrtRatioAX96, sqrtRatioBX96, amount0) ==
  LET sqrtA == IF sqrtRatioAX96 > sqrtRatioBX96 THEN sqrtRatioBX96 ELSE sqrtRatioAX96
      sqrtB == IF sqrtRatioAX96 > sqrtRatioBX96 THEN sqrtRatioAX96 ELSE sqrtRatioBX96
      intermediate == (sqrtA * sqrtB) \div Q96
  IN (amount0 * intermediate) \div (sqrtB - sqrtA)

maxLiquidityForAmount1(sqrtRatioAX96, sqrtRatioBX96, amount1) ==
  LET sqrtA == IF sqrtRatioAX96 > sqrtRatioBX96 THEN sqrtRatioBX96 ELSE sqrtRatioAX96
      sqrtB == IF sqrtRatioAX96 > sqrtRatioBX96 THEN sqrtRatioAX96 ELSE sqrtRatioBX96
  IN (amount1 * Q96) \div (sqrtB - sqrtA)

maxLiquidityForAmounts(sqrtRatioCurrentX96, sqrtRatioAX96, sqrtRatioBX96, amount0, amount1, useFullPrecision) ==
  LET sqrtA == IF sqrtRatioAX96 > sqrtRatioBX96 THEN sqrtRatioBX96 ELSE sqrtRatioAX96
      sqrtB == IF sqrtRatioAX96 > sqrtRatioBX96 THEN sqrtRatioAX96 ELSE sqrtRatioBX96
      maxLiquidityForAmount0(a, b, amt) ==
        IF useFullPrecision THEN maxLiquidityForAmount0Precise(a, b, amt)
        ELSE maxLiquidityForAmount0Imprecise(a, b, amt)
  IN IF sqrtRatioCurrentX96 <= sqrtA
     THEN maxLiquidityForAmount0(sqrtA, sqrtB, amount0)
     ELSE IF sqrtRatioCurrentX96 < sqrtB
          THEN LET liquidity0 == maxLiquidityForAmount0(sqrtRatioCurrentX96, sqrtB, amount0)
                   liquidity1 == maxLiquidityForAmount1(sqrtA, sqrtRatioCurrentX96, amount1)
               IN IF liquidity0 < liquidity1 THEN liquidity0 ELSE liquidity1
          ELSE maxLiquidityForAmount1(sqrtA, sqrtB, amount1)

(* ------------------------------------------------------------------ *)
(* priceUtils                                                          *)
(* ------------------------------------------------------------------ *)
RECURSIVE sqrtNewton(_, _, _)
sqrtNewton(value, z, xx) ==
  IF xx < z THEN sqrtNewton(value, xx, ((value \div xx) + xx) \div 2) ELSE z

sqrt(value) == IF value < 2 THEN value ELSE sqrtNewton(value, value, (value \div 2) + 1)

\* floor(price * precision) is the argument: the price in units of 1/PricePrecision
PricePrecision == 10000

priceToSqrtPriceX96(priceScaled) ==
  LET sqrtPriceScaled == sqrt(priceScaled)
      sqrtPrecision == sqrt(PricePrecision)
  IN (sqrtPriceScaled * Q96) \div sqrtPrecision

\* Math.round(tick / tickSpacing) * tickSpacing, moved inside the tick bounds
nearestUsableTick(tick, spacing) ==
  LET rounded == ((2 * tick + spacing) \div (2 * spacing)) * spacing
  IN IF rounded < MIN_TICK THEN rounded + spacing
     ELSE IF rounded > MAX_TICK THEN rounded - spacing
     ELSE rounded

(* ------------------------------------------------------------------ *)
(* VirtualPool                                                         *)
(* ------------------------------------------------------------------ *)
\* constructor parameters: the pool's fee (default 3000) and tick spacing; both
\* tokens have the default 18 decimals, so the decimal adjustment is 1
fee == 3000
tickSpacing == 2

VARIABLES
  initialized,    \* this.initialized
  sqrtPriceX96,   \* this.sqrtPriceX96
  tick,           \* this.tick
  liquidity,      \* this.liquidity
  ticks,          \* this.ticks: tick -> [liquidityNet, liquidityGross]
  positions,      \* this.positions: sequence of [id, tickLower, tickUpper, liquidity]
  nextId,         \* number of position ids handed out so far (uuidv4 never repeats)
  nOps,           \* number of addLiquidity and swap calls that changed the pool so far
  last,           \* the last call: its name, arguments, outcome and the pool before it
  step,           \* a call of SwapMath.computeSwapStep on its own: arguments and result
  tickMath,       \* a call of TickMath on its own: arguments and result
  liqMath         \* a call of LiquidityMath.addDelta on its own: arguments and result

vars ==
  <<initialized, sqrtPriceX96, tick, liquidity, ticks, positions, nextId, nOps, last, step, tickMath, liqMath>>

pool == <<initialized, sqrtPriceX96, tick, liquidity, ticks, positions>>

\* bounds of the model
MaxOps == 2
LoopFuel == 12

\* the pool's state as a value
PoolState ==
  [initialized |-> initialized, sqrtPriceX96 |-> sqrtPriceX96, tick |-> tick,
   liquidity |-> liquidity, ticks |-> ticks, positions |-> positions]

NoResult ==
  [amountIn |-> 0, amountOut |-> 0, sqrtPriceX96After |-> 0, tickAfter |-> 0,
   liquidityAfter |-> 0]

NoAdd == [amount0 |-> 0, amount1 |-> 0, liquidity |-> 0, id |-> 0,
          tickLower |-> 0, tickUpper |-> 0]

\* a record of a call: every action fills the fields its call has
Call(op, threw) ==
  [op |-> op, threw |-> threw, diverged |-> FALSE, pre |-> PoolState,
   zeroForOne |-> FALSE, amountSpecified |-> 0, limit |-> <<>>,
   result |-> NoResult, steps |-> <<>>, simulated |-> <<>>,
   add |-> NoAdd, id |-> 0, preAdd |-> <<>>,
   error |-> "", remaining |-> 0, sqrtPriceLimitX96 |-> 0, forward |-> <<>>,
   points |-> <<>>, price |-> <<>>, args |-> <<>>, trail |-> <<>>,
   samples |-> <<>>]

\* a call that throws new Error(error)
Fail(op, error) == [Call(op, TRUE) EXCEPT !.error = error]

NoStep ==
  [phase |-> "none", sqrtRatioCurrentX96 |-> 0, sqrtRatioTargetX96 |-> 0, liquidity |-> 0,
   amountRemaining |-> 0, feePips |-> 0, result |-> StepThrow, js |-> StepThrow]

\* the state after the constructor
Constructed ==
  /\ initialized = FALSE
  /\ sqrtPriceX96 = 0
  /\ tick = 0
  /\ liquidity = 0
  /\ ticks = <<>>
  /\ positions = <<>>
  /\ nextId = 0
  /\ nOps = 0
  /\ last = [op |-> "constructor", threw |-> FALSE, diverged |-> FALSE,
             pre |-> [initialized |-> FALSE, sqrtPriceX96 |-> 0, tick |-> 0,
                      liquidity |-> 0, ticks |-> <<>>, positions |-> <<>>],
             zeroForOne |-> FALSE, amountSpecified |-> 0, limit |-> <<>>,
             result |-> NoResult, steps |-> <<>>, simulated |-> <<>>,
             add |-> NoAdd, id |-> 0, preAdd |-> <<>>,
             error |-> "", remaining |-> 0, sqrtPriceLimitX96 |-> 0, forward |-> <<>>,
             points |-> <<>>, price |-> <<>>, args |-> <<>>, trail |-> <<>>,
   samples |-> <<>>]

\* no call of TickMath yet
NoTickCall == [phase |-> "none", tick |-> 0, sqrtRatioX96 |-> 0, result |-> Throw]

\* no call of LiquidityMath.addDelta yet
NoDeltaCall == [phase |-> "none", x |-> 0, y |-> 0, result |-> Throw]

Init == Constructed /\ step = NoStep /\ tickMath = NoTickCall /\ liqMath = NoDeltaCall

\* ---- initialize ----
\* initialPrice is a float: its sign test and floor(initialPrice * precision), the
\* only two things the code reads from it; a positive price may floor to zero
InitPrices == {<<FALSE, 0>>, <<TRUE, 0>>, <<TRUE, 10000>>, <<TRUE, 15000>>, <<TRUE, 50000>>}

clampSqrtPrice(p) ==
  LET lo == IF p < MIN_SQRT_RATIO THEN MIN_SQRT_RATIO ELSE p
  IN IF lo >= MAX_SQRT_RATIO THEN MAX_SQRT_RATIO - 1 ELSE lo

\* initialize with a fault: the price is stored before it is checked
initialize_PriceFirst(positive, priceScaled) ==
  IF initialized
  THEN /\ last' = Fail("initialize", "Pool already initialized")
       /\ UNCHANGED <<pool, nextId, nOps, step, tickMath, liqMath>>
  ELSE LET p == clampSqrtPrice(priceToSqrtPriceX96(priceScaled))
           t == getTickAtSqrtRatio(p)
       IN /\ sqrtPriceX96' = p
          /\ tick' = IF positive /\ ~t.thrown THEN t.value ELSE tick
          /\ initialized' = (positive /\ ~t.thrown)
          /\ last' = IF ~positive THEN Fail("initialize", "Price must be positive")
                      ELSE IF t.thrown THEN Fail("initialize", "SQRT_RATIO_OUT_OF_BOUNDS")
                      ELSE Call("initialize", FALSE)
          /\ UNCHANGED <<liquidity, ticks, positions, nextId, nOps, step, tickMath, liqMath>>

\* initialize with a fault: the price is checked before the initialized flag
initialize_PriceChecked(positive, priceScaled) ==
  IF ~positive
  THEN /\ last' = [Fail("initialize", "Price must be positive") EXCEPT
                     !.price = <<positive, priceScaled>>]
       /\ UNCHANGED <<pool, nextId, nOps, step, tickMath, liqMath>>
  ELSE IF initialized
  THEN /\ last' = [Fail("initialize", "Pool already initialized") EXCEPT
                     !.price = <<positive, priceScaled>>]
       /\ UNCHANGED <<pool, nextId, nOps, step, tickMath, liqMath>>
  ELSE LET p == clampSqrtPrice(priceToSqrtPriceX96(priceScaled))
           t == getTickAtSqrtRatio(p)
       IN /\ sqrtPriceX96' = p
          /\ tick' = IF t.thrown THEN tick ELSE t.value
          /\ initialized' = IF t.thrown THEN initialized ELSE TRUE
          /\ last' = [(IF t.thrown THEN Fail("initialize", "SQRT_RATIO_OUT_OF_BOUNDS")
                       ELSE Call("initialize", FALSE)) EXCEPT
                        !.price = <<positive, priceScaled>>]
          /\ UNCHANGED <<liquidity, ticks, positions, nextId, nOps, step, tickMath, liqMath>>

initialize(positive, priceScaled) ==
  IF initialized
  THEN /\ last' = [Fail("initialize", "Pool already initialized") EXCEPT
                     !.price = <<positive, priceScaled>>]
       /\ UNCHANGED <<pool, nextId, nOps, step, tickMath, liqMath>>
  ELSE IF ~positive
  THEN /\ last' = [Fail("initialize", "Price must be positive") EXCEPT
                     !.price = <<positive, priceScaled>>]
       /\ UNCHANGED <<pool, nextId, nOps, step, tickMath, liqMath>>
  ELSE LET p == clampSqrtPrice(priceToSqrtPriceX96(priceScaled))
           t == getTickAtSqrtRatio(p)
       IN /\ sqrtPriceX96' = p
          /\ tick' = IF t.thrown THEN tick ELSE t.value
          /\ initialized' = IF t.thrown THEN initialized ELSE TRUE
          /\ last' = [(IF t.thrown THEN Fail("initialize", "SQRT_RATIO_OUT_OF_BOUNDS")
                       ELSE Call("initialize", FALSE)) EXCEPT
                        !.price = <<positive, priceScaled>>]
          /\ UNCHANGED <<liquidity, ticks, positions, nextId, nOps, step, tickMath, liqMath>>

\* updateTick with a fault: an entry whose liquidityGross reaches zero is kept
updateTick_NeverDelete(tks, t, liquidityDelta, upper) ==
  LET tickData == IF t \in DOMAIN tks THEN tks[t]
                  ELSE [liquidityNet |-> 0, liquidityGross |-> 0]
      new == [liquidityGross |-> tickData.liquidityGross + liquidityDelta,
              liquidityNet |-> IF upper THEN tickData.liquidityNet - liquidityDelta
                               ELSE tickData.liquidityNet + liquidityDelta]
  IN [k \in DOMAIN tks \cup {t} |-> IF k = t THEN new ELSE tks[k]]

\* updateTick with a fault: the upper boundary adds the delta to liquidityNet as the
\* lower one does
updateTick_UpperAdds(tks, t, liquidityDelta, upper) ==
  LET tickData == IF t \in DOMAIN tks THEN tks[t]
                  ELSE [liquidityNet |-> 0, liquidityGross |-> 0]
      new == [liquidityGross |-> tickData.liquidityGross + liquidityDelta,
              liquidityNet |-> tickData.liquidityNet + liquidityDelta]
  IN IF new.liquidityGross = 0
     THEN [k \in DOMAIN tks \ {t} |-> tks[k]]
     ELSE [k \in DOMAIN tks \cup {t} |-> IF k = t THEN new ELSE tks[k]]

\* ---- updateTick ----
updateTick(tks, t, liquidityDelta, upper) ==
  LET tickData == IF t \in DOMAIN tks THEN tks[t]
                  ELSE [liquidityNet |-> 0, liquidityGross |-> 0]
      new == [liquidityGross |-> tickData.liquidityGross + liquidityDelta,
              liquidityNet |-> IF upper THEN tickData.liquidityNet - liquidityDelta
                               ELSE tickData.liquidityNet + liquidityDelta]
  IN IF new.liquidityGross = 0
     THEN [k \in DOMAIN tks \ {t} |-> tks[k]]
     ELSE [k \in DOMAIN tks \cup {t} |-> IF k = t THEN new ELSE tks[k]]

\* ---- addLiquidity ----
\* the calls made: <<tickLower, tickUpper, amount0Desired, amount1Desired>>
AddArgs ==
  {<<-4, 4, 300, 300>>, <<1, 6, 300, 300>>, <<-6, -2, 0, 500>>,
   <<2, 2, 300, 300>>, <<-10, 4, 300, 300>>, <<-4, 4, 0, 0>>, <<-12, 4, 300, 300>>}

\* addLiquidityResult with a fault: the amounts of a range below and above the price
\* are exchanged
addLiquidityResult_Swapped(tickLowerArg, tickUpperArg, amount0Desired, amount1Desired) ==
  LET tickLower == nearestUsableTick(tickLowerArg, tickSpacing)
      tickUpper == nearestUsableTick(tickUpperArg, tickSpacing)
  IN IF ~initialized
     THEN [thrown |-> TRUE, add |-> NoAdd, error |-> "Pool not initialized"]
     ELSE IF tickLower >= tickUpper
     THEN [thrown |-> TRUE, add |-> NoAdd, error |-> "tickLower must be less than tickUpper"]
     ELSE IF tickLower < MIN_TICK \/ tickUpper > MAX_TICK
     THEN [thrown |-> TRUE, add |-> NoAdd, error |-> "Tick out of bounds"]
     ELSE
       LET sqrtRatioAX96 == getSqrtRatioAtTick(tickLower)
           sqrtRatioBX96 == getSqrtRatioAtTick(tickUpper)
           liq == maxLiquidityForAmounts(sqrtPriceX96, sqrtRatioAX96, sqrtRatioBX96,
                                         amount0Desired, amount1Desired, TRUE)
           amount0 ==
             IF sqrtPriceX96 < sqrtRatioAX96 THEN 0
             ELSE IF sqrtPriceX96 < sqrtRatioBX96
                  THEN getAmount0Delta(sqrtPriceX96, sqrtRatioBX96, liq, TRUE)
                  ELSE getAmount0Delta(sqrtRatioAX96, sqrtRatioBX96, liq, TRUE)
           amount1 ==
             IF sqrtPriceX96 < sqrtRatioAX96
             THEN getAmount1Delta(sqrtRatioAX96, sqrtRatioBX96, liq, TRUE)
             ELSE IF sqrtPriceX96 < sqrtRatioBX96
                  THEN getAmount1Delta(sqrtRatioAX96, sqrtPriceX96, liq, TRUE)
                  ELSE 0
       IN IF liq <= 0
          THEN [thrown |-> TRUE, add |-> NoAdd,
                error |-> "Insufficient amounts for liquidity"]
          ELSE [thrown |-> FALSE, error |-> "",
                add |-> [amount0 |-> amount0, amount1 |-> amount1, liquidity |-> liq,
                         id |-> nextId + 1, tickLower |-> tickLower,
                         tickUpper |-> tickUpper]]

\* addLiquidityResult with a fault: a liquidity of zero is let through
addLiquidityResult_ZeroAllowed(tickLowerArg, tickUpperArg, amount0Desired, amount1Desired) ==
  LET tickLower == nearestUsableTick(tickLowerArg, tickSpacing)
      tickUpper == nearestUsableTick(tickUpperArg, tickSpacing)
  IN IF ~initialized
     THEN [thrown |-> TRUE, add |-> NoAdd, error |-> "Pool not initialized"]
     ELSE IF tickLower >= tickUpper
     THEN [thrown |-> TRUE, add |-> NoAdd, error |-> "tickLower must be less than tickUpper"]
     ELSE IF tickLower < MIN_TICK \/ tickUpper > MAX_TICK
     THEN [thrown |-> TRUE, add |-> NoAdd, error |-> "Tick out of bounds"]
     ELSE
       LET sqrtRatioAX96 == getSqrtRatioAtTick(tickLower)
           sqrtRatioBX96 == getSqrtRatioAtTick(tickUpper)
           liq == maxLiquidityForAmounts(sqrtPriceX96, sqrtRatioAX96, sqrtRatioBX96,
                                         amount0Desired, amount1Desired, TRUE)
           amount0 ==
             IF sqrtPriceX96 < sqrtRatioAX96
             THEN getAmount0Delta(sqrtRatioAX96, sqrtRatioBX96, liq, TRUE)
             ELSE IF sqrtPriceX96 < sqrtRatioBX96
                  THEN getAmount0Delta(sqrtPriceX96, sqrtRatioBX96, liq, TRUE)
                  ELSE 0
           amount1 ==
             IF sqrtPriceX96 < sqrtRatioAX96 THEN 0
             ELSE IF sqrtPriceX96 < sqrtRatioBX96
                  THEN getAmount1Delta(sqrtRatioAX96, sqrtPriceX96, liq, TRUE)
                  ELSE getAmount1Delta(sqrtRatioAX96, sqrtRatioBX96, liq, TRUE)
       IN IF liq < 0
          THEN [thrown |-> TRUE, add |-> NoAdd,
                error |-> "Insufficient amounts for liquidity"]
          ELSE [thrown |-> FALSE, error |-> "",
                add |-> [amount0 |-> amount0, amount1 |-> amount1, liquidity |-> liq,
                         id |-> nextId + 1, tickLower |-> tickLower,
                         tickUpper |-> tickUpper]]

\* what addLiquidity computes before it changes the pool: the thrown flag and the result
addLiquidityResult(tickLowerArg, tickUpperArg, amount0Desired, amount1Desired) ==
  LET tickLower == nearestUsableTick(tickLowerArg, tickSpacing)
      tickUpper == nearestUsableTick(tickUpperArg, tickSpacing)
  IN IF ~initialized
     THEN [thrown |-> TRUE, add |-> NoAdd, error |-> "Pool not initialized"]
     ELSE IF tickLower >= tickUpper
     THEN [thrown |-> TRUE, add |-> NoAdd, error |-> "tickLower must be less than tickUpper"]
     ELSE IF tickLower < MIN_TICK \/ tickUpper > MAX_TICK
     THEN [thrown |-> TRUE, add |-> NoAdd, error |-> "Tick out of bounds"]
     ELSE
       LET sqrtRatioAX96 == getSqrtRatioAtTick(tickLower)
           sqrtRatioBX96 == getSqrtRatioAtTick(tickUpper)
           liq == maxLiquidityForAmounts(sqrtPriceX96, sqrtRatioAX96, sqrtRatioBX96,
                                         amount0Desired, amount1Desired, TRUE)
           amount0 ==
             IF sqrtPriceX96 < sqrtRatioAX96
             THEN getAmount0Delta(sqrtRatioAX96, sqrtRatioBX96, liq, TRUE)
             ELSE IF sqrtPriceX96 < sqrtRatioBX96
                  THEN getAmount0Delta(sqrtPriceX96, sqrtRatioBX96, liq, TRUE)
                  ELSE 0
           amount1 ==
             IF sqrtPriceX96 < sqrtRatioAX96 THEN 0
             ELSE IF sqrtPriceX96 < sqrtRatioBX96
                  THEN getAmount1Delta(sqrtRatioAX96, sqrtPriceX96, liq, TRUE)
                  ELSE getAmount1Delta(sqrtRatioAX96, sqrtRatioBX96, liq, TRUE)
       IN IF liq <= 0
          THEN [thrown |-> TRUE, add |-> NoAdd,
                error |-> "Insufficient amounts for liquidity"]
          ELSE [thrown |-> FALSE, error |-> "",
                add |-> [amount0 |-> amount0, amount1 |-> amount1, liquidity |-> liq,
                         id |-> nextId + 1, tickLower |-> tickLower,
                         tickUpper |-> tickUpper]]

\* liquidityAfterAdd with a fault: a position starting on the current tick is left out
liquidityAfterAdd_StrictLower(liq, t, position) ==
  IF t > position.tickLower /\ t < position.tickUpper
  THEN liq + position.liquidity
  ELSE liq

\* lines 348-351: update active liquidity if in range
liquidityAfterAdd(liq, t, position) ==
  IF t >= position.tickLower /\ t < position.tickUpper
  THEN liq + position.liquidity
  ELSE liq

addLiquidity(tickLowerArg, tickUpperArg, amount0Desired, amount1Desired) ==
  LET r == addLiquidityResult(tickLowerArg, tickUpperArg, amount0Desired, amount1Desired)
  IN IF r.thrown
     THEN /\ last' = [Fail("addLiquidity", r.error) EXCEPT
                        !.args = <<tickLowerArg, tickUpperArg, amount0Desired,
                                   amount1Desired>>]
          /\ UNCHANGED <<pool, nextId, nOps, step, tickMath, liqMath>>
     ELSE /\ nOps < MaxOps
          /\ ticks' = updateTick(updateTick(ticks, r.add.tickLower, r.add.liquidity, FALSE),
                                 r.add.tickUpper, r.add.liquidity, TRUE)
          /\ liquidity' = liquidityAfterAdd(liquidity, tick, r.add)
          /\ positions' = Append(positions,
                                 [id |-> r.add.id, tickLower |-> r.add.tickLower,
                                  tickUpper |-> r.add.tickUpper,
                                  liquidity |-> r.add.liquidity])
          /\ nextId' = nextId + 1
          /\ nOps' = nOps + 1
          /\ last' = [Call("addLiquidity", FALSE) EXCEPT
                        !.add = r.add, !.id = r.add.id,
                        !.args = <<tickLowerArg, tickUpperArg, amount0Desired,
                                   amount1Desired>>]
          /\ UNCHANGED <<initialized, sqrtPriceX96, tick, step, tickMath, liqMath>>

\* ---- removePosition ----
\* positions.findIndex((p) => p.id === positionId): 0 stands for -1
findIndex(positionId) ==
  LET hits == {i \in 1..Len(positions) : positions[i].id = positionId}
  IN IF hits = {} THEN 0 ELSE CHOOSE i \in hits : \A j \in hits : i <= j

\* splice with a fault: the first element is removed, whatever the index
splice_First(seq, index) == [i \in 1..(Len(seq) - 1) |-> seq[i + 1]]

\* positions.splice(index, 1)
splice(seq, index) == [i \in 1..(Len(seq) - 1) |-> IF i < index THEN seq[i] ELSE seq[i + 1]]

\* liquidityAfterRemove with a fault: the in-range test is missing
liquidityAfterRemove_Always(liq, t, position) == liq - position.liquidity

\* lines 791-794: update active liquidity if in range
liquidityAfterRemove(liq, t, position) ==
  IF t >= position.tickLower /\ t < position.tickUpper
  THEN liq - position.liquidity
  ELSE liq

removePosition(positionId) ==
  LET index == findIndex(positionId)
  IN IF index = 0
     THEN /\ last' = [Fail("removePosition", "Position not found") EXCEPT
                        !.id = positionId]
          /\ UNCHANGED <<pool, nextId, nOps, step, tickMath, liqMath>>
     ELSE LET position == positions[index]
              negativeLiquidity == position.liquidity * (-1)
          IN /\ ticks' = updateTick(updateTick(ticks, position.tickLower,
                                               negativeLiquidity, FALSE),
                                    position.tickUpper, negativeLiquidity, TRUE)
             /\ liquidity' = liquidityAfterRemove(liquidity, tick, position)
             /\ positions' = splice(positions, index)
             /\ last' = [Call("removePosition", FALSE) EXCEPT
                           !.id = positionId,
                           !.preAdd = IF last.op = "addLiquidity" /\ ~last.threw
                                         /\ last.id = positionId
                                      THEN <<last.pre>> ELSE <<>>]
             /\ UNCHANGED <<initialized, sqrtPriceX96, tick, nextId, nOps, step, tickMath, liqMath>>

\* ---- findNextInitializedTick ----
findNextInitializedTick(t, lte) ==
  LET below == {k \in DOMAIN ticks : k <= t}
      above == {k \in DOMAIN ticks : k > t}
  IN IF lte
     THEN IF below # {}
          THEN [tickNext |-> CHOOSE k \in below : \A j \in below : j <= k,
                initialized |-> TRUE]
          ELSE [tickNext |-> MIN_TICK, initialized |-> FALSE]
     ELSE IF above # {}
          THEN [tickNext |-> CHOOSE k \in above : \A j \in above : k <= j,
                initialized |-> TRUE]
          ELSE [tickNext |-> MAX_TICK, initialized |-> FALSE]

\* ---- swapWithSteps ----
\* amountSpecified of the swap and simulateSwap calls made
SwapAmounts == {1, 60, 2000, -40}

\* the swapWithSteps calls made: <<zeroForOne, amountSpecified, sqrtPriceLimitX96>>,
\* the optional sqrtPriceLimitX96 being <<>> when absent
SwapArgs ==
  {<<TRUE, 2000, <<212>>>>, <<FALSE, 2000, <<310>>>>,
   <<TRUE, 60, <<120>>>>, <<FALSE, 60, <<549>>>>,
   <<TRUE, -2000, <<>>>>, <<FALSE, -2000, <<>>>>, <<TRUE, 0, <<>>>>}

\* Math.max(MIN_TICK, Math.min(MAX_TICK, tickNext))
clampTick(t) ==
  LET hi == IF t > MAX_TICK THEN MAX_TICK ELSE t
  IN IF hi < MIN_TICK THEN MIN_TICK ELSE hi

\* priceLimit with a fault: the default limit is the global bound itself
priceLimit_AtBound(zeroForOne, limit) ==
  IF limit = <<>>
  THEN IF zeroForOne THEN MIN_SQRT_RATIO ELSE MAX_SQRT_RATIO
  ELSE limit[1]

\* the price limit used: the default when none is given
priceLimit(zeroForOne, limit) ==
  IF limit = <<>>
  THEN IF zeroForOne THEN MIN_SQRT_RATIO + 1 ELSE MAX_SQRT_RATIO - 1
  ELSE limit[1]

\* limitThrows with a fault: RATIO_MIN and RATIO_MAX are not checked
limitThrows_NoGlobalBound(s, zeroForOne, sqrtPriceLimitX96) ==
  IF zeroForOne
  THEN sqrtPriceLimitX96 >= s.sqrtPriceX96
  ELSE sqrtPriceLimitX96 <= s.sqrtPriceX96

\* fault: a limit equal to the current price is let through
limitThrows_StrictCurrent(s, zeroForOne, sqrtPriceLimitX96) ==
  IF zeroForOne
  THEN sqrtPriceLimitX96 <= MIN_SQRT_RATIO \/ sqrtPriceLimitX96 > s.sqrtPriceX96
  ELSE sqrtPriceLimitX96 >= MAX_SQRT_RATIO \/ sqrtPriceLimitX96 < s.sqrtPriceX96

\* the validation of the price limit against this.sqrtPriceX96 (s is the engine's
\* price, tick and liquidity at the call): TRUE when it throws
limitThrows(s, zeroForOne, sqrtPriceLimitX96) ==
  IF zeroForOne
  THEN sqrtPriceLimitX96 <= MIN_SQRT_RATIO \/ sqrtPriceLimitX96 >= s.sqrtPriceX96
  ELSE sqrtPriceLimitX96 >= MAX_SQRT_RATIO \/ sqrtPriceLimitX96 <= s.sqrtPriceX96

\* the message of the validation's throw
limitError(zeroForOne, sqrtPriceLimitX96) ==
  IF zeroForOne
  THEN IF sqrtPriceLimitX96 <= MIN_SQRT_RATIO THEN "RATIO_MIN" ELSE "RATIO_CURRENT"
  ELSE IF sqrtPriceLimitX96 >= MAX_SQRT_RATIO THEN "RATIO_MAX" ELSE "RATIO_CURRENT"

\* crossLiquidity with a fault: crossing a tick leaves the liquidity as it was
crossLiquidity_NoCross(liq, tickNextClamped, tickNextInitialized, zeroForOne) == liq

\* crossLiquidity with a fault: only an upward crossing applies the tick's net liquidity
crossLiquidity_UpOnly(liq, tickNextClamped, tickNextInitialized, zeroForOne) ==
  IF tickNextInitialized /\ tickNextClamped \in DOMAIN ticks /\ ~zeroForOne
  THEN addDelta(liq, ticks[tickNextClamped].liquidityNet)
  ELSE liq

\* the liquidity after crossing tickNext, when the step ended on its price
crossLiquidity(liq, tickNextClamped, tickNextInitialized, zeroForOne) ==
  IF tickNextInitialized /\ tickNextClamped \in DOMAIN ticks
  THEN LET liquidityNet == ticks[tickNextClamped].liquidityNet
       IN addDelta(liq, IF zeroForOne THEN liquidityNet * (-1) ELSE liquidityNet)
  ELSE liq

\* stepTick with a fault: a downward crossing leaves the tick on the crossed tick
stepTick_NoStepDown(st, price, sqrtPriceNextX96, tickNextClamped, zeroForOne) ==
  IF price = sqrtPriceNextX96 THEN Return(tickNextClamped)
  ELSE IF price # st.sqrtPriceX96 THEN getTickAtSqrtRatio(price)
  ELSE Return(st.tick)

\* stepTick with a fault: the tick is not recomputed when the step ends between ticks
stepTick_NoRecompute(st, price, sqrtPriceNextX96, tickNextClamped, zeroForOne) ==
  IF price = sqrtPriceNextX96
  THEN Return(IF zeroForOne THEN tickNextClamped - 1 ELSE tickNextClamped)
  ELSE Return(st.tick)

\* stepTick with a fault: the tick is recomputed from the price also when the step did
\* not move the price
stepTick_AlwaysRecompute(st, price, sqrtPriceNextX96, tickNextClamped, zeroForOne) ==
  IF price = sqrtPriceNextX96
  THEN Return(IF zeroForOne THEN tickNextClamped - 1 ELSE tickNextClamped)
  ELSE getTickAtSqrtRatio(price)

\* the tick after a step
stepTick(st, price, sqrtPriceNextX96, tickNextClamped, zeroForOne) ==
  IF price = sqrtPriceNextX96
  THEN Return(IF zeroForOne THEN tickNextClamped - 1 ELSE tickNextClamped)
  ELSE IF price # st.sqrtPriceX96 THEN getTickAtSqrtRatio(price)
  ELSE Return(st.tick)

\* one iteration of the swap loop on the local state st
swapIteration(st, zeroForOne, sqrtPriceLimitX96, exactInput) ==
  LET nxt == findNextInitializedTick(st.tick, zeroForOne)
      tickNextClamped == clampTick(nxt.tickNext)
      sqrtPriceNextX96 == getSqrtRatioAtTick(tickNextClamped)
      sqrtRatioTargetX96 ==
        IF (IF zeroForOne THEN sqrtPriceNextX96 < sqrtPriceLimitX96
            ELSE sqrtPriceNextX96 > sqrtPriceLimitX96)
        THEN sqrtPriceLimitX96 ELSE sqrtPriceNextX96
      stepResult == computeSwapStep(st.sqrtPriceX96, sqrtRatioTargetX96, st.liquidity,
                                    st.amountSpecifiedRemaining, fee)
      price == stepResult.sqrtRatioNextX96
      t == stepTick(st, price, sqrtPriceNextX96, tickNextClamped, zeroForOne)
  IN IF stepResult.thrown \/ t.thrown THEN [st EXCEPT !.thrown = TRUE]
     ELSE [thrown |-> FALSE,
           sqrtPriceX96 |-> price,
           tick |-> t.value,
           liquidity |-> IF price = sqrtPriceNextX96
                         THEN crossLiquidity(st.liquidity, tickNextClamped,
                                             nxt.initialized, zeroForOne)
                         ELSE st.liquidity,
           amountSpecifiedRemaining |->
             IF exactInput
             THEN st.amountSpecifiedRemaining - (stepResult.amountIn + stepResult.feeAmount)
             ELSE st.amountSpecifiedRemaining + stepResult.amountOut,
           amountCalculated |->
             IF exactInput
             THEN st.amountCalculated - stepResult.amountOut
             ELSE st.amountCalculated + (stepResult.amountIn + stepResult.feeAmount),
           steps |-> Append(st.steps,
                            [sqrtPriceStartX96 |-> st.sqrtPriceX96,
                             sqrtPriceNextX96 |-> price,
                             tickNext |-> tickNextClamped,
                             amountIn |-> stepResult.amountIn,
                             amountOut |-> stepResult.amountOut,
                             feeAmount |-> stepResult.feeAmount,
                             liquidity |-> st.liquidity]),
           trail |-> Append(st.trail,
                            [tickBefore |-> st.tick,
                             tickNextInitialized |-> nxt.initialized,
                             tickAfter |-> t.value,
                             liquidityAfter |->
                               IF price = sqrtPriceNextX96
                               THEN crossLiquidity(st.liquidity, tickNextClamped,
                                                   nxt.initialized, zeroForOne)
                               ELSE st.liquidity])]

\* the while loop; fuel bounds the iterations the model follows
RECURSIVE swapLoop(_, _, _, _, _)
swapLoop(st, zeroForOne, sqrtPriceLimitX96, exactInput, fuel) ==
  IF st.thrown THEN st
  ELSE IF ~(st.amountSpecifiedRemaining # 0 /\ ~(st.sqrtPriceX96 = sqrtPriceLimitX96))
  THEN st
  ELSE IF fuel = 0 THEN [st EXCEPT !.thrown = TRUE, !.steps = <<>>]
  ELSE Const(swapIteration(st, zeroForOne, sqrtPriceLimitX96, exactInput),
             LAMBDA state :
               swapLoop(state, zeroForOne, sqrtPriceLimitX96, exactInput, fuel - 1))

\* the whole of swapWithSteps as a value: thrown, diverged (the loop did not end
\* within LoopFuel iterations), the final local state and the result
swapResult(fin, amountSpecified, exactInput) ==
  IF fin.thrown
  THEN [thrown |-> TRUE, diverged |-> fin.steps = <<>>, result |-> NoResult,
        steps |-> <<>>, trail |-> <<>>, remaining |-> 0,
        error |-> IF fin.steps = <<>> THEN "" ELSE "computeSwapStep"]
  ELSE [thrown |-> FALSE, diverged |-> FALSE, steps |-> fin.steps, trail |-> fin.trail,
        remaining |-> fin.amountSpecifiedRemaining, error |-> "",
        result |->
          [amountIn |-> IF exactInput
                        THEN amountSpecified - fin.amountSpecifiedRemaining
                        ELSE fin.amountCalculated,
           amountOut |-> IF exactInput
                         THEN fin.amountCalculated * (-1)
                         ELSE (amountSpecified * (-1)) - fin.amountSpecifiedRemaining,
           sqrtPriceX96After |-> fin.sqrtPriceX96,
           tickAfter |-> fin.tick,
           liquidityAfter |-> fin.liquidity]]

\* swapWithSteps up to its result, run on the engine state s (this.sqrtPriceX96,
\* this.tick, this.liquidity at the call)
swapOutcomeFrom(s, zeroForOne, amountSpecified, limit) ==
  LET sqrtPriceLimitX96 == priceLimit(zeroForOne, limit)
      exactInput == amountSpecified >= 0
      st0 == [thrown |-> FALSE, sqrtPriceX96 |-> s.sqrtPriceX96, tick |-> s.tick,
              liquidity |-> s.liquidity, amountSpecifiedRemaining |-> amountSpecified,
              amountCalculated |-> 0, steps |-> <<>>, trail |-> <<>>]
  IN IF ~initialized
     THEN [thrown |-> TRUE, diverged |-> FALSE, result |-> NoResult, steps |-> <<>>,
           trail |-> <<>>, remaining |-> 0, error |-> "Pool not initialized"]
     ELSE IF limitThrows(s, zeroForOne, sqrtPriceLimitX96)
     THEN [thrown |-> TRUE, diverged |-> FALSE, result |-> NoResult, steps |-> <<>>,
           trail |-> <<>>, remaining |-> 0, error |-> limitError(zeroForOne, sqrtPriceLimitX96)]
     ELSE Const(swapLoop(st0, zeroForOne, sqrtPriceLimitX96, exactInput, LoopFuel),
                LAMBDA fin : swapResult(fin, amountSpecified, exactInput))

\* the engine's price, tick and liquidity now
EngineState == [sqrtPriceX96 |-> sqrtPriceX96, tick |-> tick, liquidity |-> liquidity]

swapOutcome(zeroForOne, amountSpecified, limit) ==
  swapOutcomeFrom(EngineState, zeroForOne, amountSpecified, limit)

\* the record of a swap call
SwapCall(op, zeroForOne, amountSpecified, limit, out) ==
  [Call(op, out.thrown) EXCEPT
     !.diverged = out.diverged, !.zeroForOne = zeroForOne,
     !.amountSpecified = amountSpecified, !.limit = limit,
     !.result = out.result, !.steps = out.steps, !.trail = out.trail, !.error = out.error,
     !.remaining = out.remaining,
     !.sqrtPriceLimitX96 = priceLimit(zeroForOne, limit)]

\* the pool's part of swapWithSteps: lines 538-541 write the loop's state back
commitWithin(out, budget) ==
  IF out.thrown
  THEN UNCHANGED <<pool, nextId, nOps, step, tickMath, liqMath>>
  ELSE /\ nOps < budget
       /\ sqrtPriceX96' = out.result.sqrtPriceX96After
       /\ tick' = out.result.tickAfter
       /\ liquidity' = out.result.liquidityAfter
       /\ nOps' = nOps + 1
       /\ UNCHANGED <<initialized, ticks, positions, nextId, step, tickMath, liqMath>>

commitSwap(out) == commitWithin(out, MaxOps)

swapWithSteps(zeroForOne, amountSpecified, limit) ==
  \E out \in {swapOutcome(zeroForOne, amountSpecified, limit)} :
     /\ commitSwap(out)
     /\ last' = SwapCall("swapWithSteps", zeroForOne, amountSpecified, limit, out)

\* swap: the initialized check, then swapWithSteps with the same params (no limit)
swap(zeroForOne, amountSpecified) ==
  \E out \in {swapOutcome(zeroForOne, amountSpecified, <<>>)} :
  LET same == last.op = "simulateSwap" /\ last.zeroForOne = zeroForOne
              /\ last.amountSpecified = amountSpecified
  IN /\ commitSwap(out)
     /\ last' = [SwapCall("swap", zeroForOne, amountSpecified, <<>>, out) EXCEPT
                   !.simulated = IF same THEN <<[threw |-> last.threw,
                                               result |-> last.result]>>
                                 ELSE <<>>]

\* swap of the whole output of the zeroForOne exact-input swap just made, back in
\* the other direction (a round trip); it follows its forward swap, so it is
\* counted on top of MaxOps
swapBack ==
  /\ last.op = "swap" /\ ~last.threw /\ last.zeroForOne /\ last.amountSpecified > 0
  /\ \E out \in {swapOutcome(FALSE, last.result.amountOut, <<>>)} :
       /\ commitWithin(out, MaxOps + 1)
       /\ last' = [SwapCall("swap", FALSE, last.result.amountOut, <<>>, out) EXCEPT
                     !.forward = <<last.result>>]

\* simulateSwap with a fault: the saved state is not restored
simulateSwap_NoRestore(zeroForOne, amountSpecified) ==
  \E out \in {swapOutcome(zeroForOne, amountSpecified, <<>>)} :
     /\ sqrtPriceX96' = IF out.thrown THEN sqrtPriceX96 ELSE out.result.sqrtPriceX96After
     /\ tick' = IF out.thrown THEN tick ELSE out.result.tickAfter
     /\ liquidity' = IF out.thrown THEN liquidity ELSE out.result.liquidityAfter
     /\ last' = SwapCall("simulateSwap", zeroForOne, amountSpecified, <<>>, out)
     /\ UNCHANGED <<initialized, ticks, positions, nextId, nOps, step, tickMath, liqMath>>

\* simulateSwap with a fault: only the price is restored
simulateSwap_PriceOnly(zeroForOne, amountSpecified) ==
  \E out \in {swapOutcome(zeroForOne, amountSpecified, <<>>)} :
     /\ sqrtPriceX96' = sqrtPriceX96
     /\ tick' = IF out.thrown THEN tick ELSE out.result.tickAfter
     /\ liquidity' = IF out.thrown THEN liquidity ELSE out.result.liquidityAfter
     /\ last' = SwapCall("simulateSwap", zeroForOne, amountSpecified, <<>>, out)
     /\ UNCHANGED <<initialized, ticks, positions, nextId, nOps, step, tickMath, liqMath>>

\* ---- simulateSwap ----
\* try { return this.swap(params) } finally { restore sqrtPriceX96, tick, liquidity }
simulateSwap(zeroForOne, amountSpecified) ==
  \E out \in {swapOutcome(zeroForOne, amountSpecified, <<>>)} :
  LET saved == [sqrtPriceX96 |-> sqrtPriceX96, tick |-> tick, liquidity |-> liquidity]
  IN /\ sqrtPriceX96' = saved.sqrtPriceX96
     /\ tick' = saved.tick
     /\ liquidity' = saved.liquidity
     /\ last' = SwapCall("simulateSwap", zeroForOne, amountSpecified, <<>>, out)
     /\ UNCHANGED <<initialized, ticks, positions, nextId, nOps, step, tickMath, liqMath>>

\* ---- analyzeSlippage ----
\* the calls made: maxAmount, <<>> when absent
SlippageArgs == {<<>>, <<2000>>}

\* of the 50 sample points, numbers 1, 25, 38 and 50: min(fraction, 1) in 1/10000
SlippageFractions == <<1, 100, 1096, 10000>>

\* the largest amount a sampled swap is followed for
MaxSample == 2000

\* lines 651-653: the default max amount is liquidity * 1000
maxAmountOf(maxAmount) == IF maxAmount = <<>> THEN liquidity * 1000 ELSE maxAmount[1]

\* sampling with a fault: a sampled swap starts where the one before it ended
sampleStart_Running(savedState, running) == running

\* lines 667-670: the state is restored before each simulation
sampleStart(savedState, running) == savedState

\* lines 657-698: the sampled swaps in order, each with the state it started from;
\* a swap that returns commits its state, a throwing one is caught
RECURSIVE slippageSamples(_, _, _, _, _)
slippageSamples(savedState, running, zeroForOne, maxAmount, i) ==
  IF i > Len(SlippageFractions) THEN <<>>
  ELSE LET amountIn == (maxAmount * SlippageFractions[i]) \div 10000
       IN IF amountIn <= 0
          THEN slippageSamples(savedState, running, zeroForOne, maxAmount, i + 1)
          ELSE Const(swapOutcomeFrom(sampleStart(savedState, running), zeroForOne, amountIn, <<>>),
                     LAMBDA out :
                       <<[amountIn |-> amountIn,
                          start |-> sampleStart(savedState, running),
                          thrown |-> out.thrown,
                          result |-> out.result]>>
                       \o slippageSamples(savedState,
                                          IF out.thrown
                                          THEN sampleStart(savedState, running)
                                          ELSE [sqrtPriceX96 |-> out.result.sqrtPriceX96After,
                                                tick |-> out.result.tickAfter,
                                                liquidity |-> out.result.liquidityAfter],
                                          zeroForOne, maxAmount, i + 1))

\* lines 674-693: the points of the sampled swaps that return a positive amountOut
slippagePoints(samples) ==
  LET F[n \in 0..Len(samples)] ==
        IF n = 0 THEN <<>>
        ELSE IF ~samples[n].thrown /\ samples[n].result.amountOut > 0
             THEN Append(F[n - 1], [amountIn |-> samples[n].result.amountIn,
                                    amountOut |-> samples[n].result.amountOut])
             ELSE F[n - 1]
  IN F[Len(samples)]

\* analyzeSlippage with a fault: the initialized check is missing
analyzeSlippage_NoCheck(zeroForOne, maxAmount) ==
  /\ maxAmountOf(maxAmount) <= MaxSample
  /\ \E samples \in {slippageSamples(EngineState, EngineState, zeroForOne,
                                       maxAmountOf(maxAmount), 1)} :
        last' = [Call("analyzeSlippage", FALSE) EXCEPT
                   !.zeroForOne = zeroForOne,
                   !.samples = samples,
                   !.points = slippagePoints(samples)]
  /\ UNCHANGED <<pool, nextId, nOps, step, tickMath, liqMath>>

\* the body of analyzeSlippage, recorded as a call of op
slippageAnalysis(op, zeroForOne, maxAmount) ==
  IF ~initialized
  THEN /\ last' = Fail(op, "Pool not initialized")
       /\ UNCHANGED <<pool, nextId, nOps, step, tickMath, liqMath>>
  ELSE LET savedState == [sqrtPriceX96 |-> sqrtPriceX96, tick |-> tick,
                          liquidity |-> liquidity]
       IN /\ maxAmountOf(maxAmount) <= MaxSample
          /\ sqrtPriceX96' = savedState.sqrtPriceX96
          /\ tick' = savedState.tick
          /\ liquidity' = savedState.liquidity
          /\ \E samples \in {slippageSamples(savedState, savedState, zeroForOne,
                                               maxAmountOf(maxAmount), 1)} :
                last' = [Call(op, FALSE) EXCEPT
                           !.zeroForOne = zeroForOne,
                           !.samples = samples,
                           !.points = slippagePoints(samples)]
          /\ UNCHANGED <<initialized, ticks, positions, nextId, nOps, step, tickMath, liqMath>>

analyzeSlippage(zeroForOne, maxAmount) ==
  slippageAnalysis("analyzeSlippage", zeroForOne, maxAmount)

\* ---- getAmountsAtSlippageTargets ----
\* line 729: this.analyzeSlippage(zeroForOne), no maxAmount; the rest reads the points
getAmountsAtSlippageTargets(zeroForOne) ==
  slippageAnalysis("getAmountsAtSlippageTargets", zeroForOne, <<>>)

\* ---- reset ----
reset ==
  /\ sqrtPriceX96' = 0
  /\ tick' = 0
  /\ liquidity' = 0
  /\ ticks' = <<>>
  /\ positions' = <<>>
  /\ initialized' = FALSE
  /\ last' = Call("reset", FALSE)
  /\ UNCHANGED <<nextId, nOps, step, tickMath, liqMath>>

Next ==
  \/ \E ip \in InitPrices : initialize(ip[1], ip[2])
  \/ \E a \in AddArgs : addLiquidity(a[1], a[2], a[3], a[4])
  \/ \E id \in 1..(nextId + 1) : removePosition(id)
  \/ \E z \in BOOLEAN, am \in SwapAmounts : swap(z, am)
  \/ \E a \in SwapArgs : swapWithSteps(a[1], a[2], a[3])
  \/ swapBack
  \/ \E z \in BOOLEAN, am \in SwapAmounts : simulateSwap(z, am)
  \/ \E z \in BOOLEAN, m \in SlippageArgs : analyzeSlippage(z, m)
  \/ \E z \in BOOLEAN : getAmountsAtSlippageTargets(z)
  \/ reset

Spec == Init /\ [][Next]_vars

(* ------------------------------------------------------------------ *)
(* SwapMath.computeSwapStep on its own                                 *)
(* ------------------------------------------------------------------ *)
StepPrices == {120, 121, 175, 233, 256, 257, 310, 548}
StepLiquidities == {0, 1, 50, 1000}
StepAmounts == {-2000, -40, -1, 0, 1, 3, 60, 2000}
StepFees == {0, 100, 3000, 10000, MAX_FEE}

InitStep ==
  /\ Constructed
  /\ step \in [phase : {"input"}, sqrtRatioCurrentX96 : StepPrices,
               sqrtRatioTargetX96 : StepPrices, liquidity : StepLiquidities,
               amountRemaining : StepAmounts, feePips : StepFees, result : {StepThrow},
               js : {StepThrow}]
  /\ tickMath = NoTickCall
  /\ liqMath = NoDeltaCall

ComputeStep ==
  /\ step.phase = "input"
  /\ step' = [step EXCEPT !.phase = "done",
                          !.result = computeSwapStep(step.sqrtRatioCurrentX96,
                                                     step.sqrtRatioTargetX96,
                                                     step.liquidity, step.amountRemaining,
                                                     step.feePips),
                          !.js = jsComputeSwapStep(step.sqrtRatioCurrentX96,
                                                   step.sqrtRatioTargetX96,
                                                   step.liquidity, step.amountRemaining,
                                                   step.feePips)]
  /\ UNCHANGED <<pool, nextId, nOps, last, tickMath, liqMath>>

NextStep == ComputeStep

SpecStep == InitStep /\ [][NextStep]_vars

(* ------------------------------------------------------------------ *)
(* TickMath on its own                                                 *)
(* ------------------------------------------------------------------ *)
\* the prices getTickAtSqrtRatio is called with: all valid ones and two on each side
TickPrices == (MIN_SQRT_RATIO - 2)..(MAX_SQRT_RATIO + 1)

InitTick == Constructed /\ step = NoStep /\ tickMath = NoTickCall /\ liqMath = NoDeltaCall

\* const sqrtRatio = getSqrtRatioAtTick(t)
RatioAtTick ==
  /\ \E t \in MIN_TICK..MAX_TICK :
       tickMath' = [phase |-> "ratio", tick |-> t, sqrtRatioX96 |-> getSqrtRatioAtTick(t),
                    result |-> Throw]
  /\ UNCHANGED <<pool, nextId, nOps, last, step, liqMath>>

\* getTickAtSqrtRatio(sqrtRatio) of the ratio just computed
TickOfRatio ==
  /\ tickMath.phase = "ratio"
  /\ tickMath' = [tickMath EXCEPT !.phase = "tick",
                                  !.result = getTickAtSqrtRatio(tickMath.sqrtRatioX96)]
  /\ UNCHANGED <<pool, nextId, nOps, last, step, liqMath>>

\* getTickAtSqrtRatio(p) of a price of its own
TickOfPrice ==
  /\ \E p \in TickPrices :
       tickMath' = [phase |-> "price", tick |-> 0, sqrtRatioX96 |-> p,
                    result |-> getTickAtSqrtRatio(p)]
  /\ UNCHANGED <<pool, nextId, nOps, last, step, liqMath>>

NextTick == RatioAtTick \/ TickOfRatio \/ TickOfPrice

SpecTick == InitTick /\ [][NextTick]_vars

(* ------------------------------------------------------------------ *)
(* LiquidityMath.addDelta on its own                                   *)
(* ------------------------------------------------------------------ *)
\* the largest liquidity and delta addDelta is called with
MaxDelta == 12

InitDelta ==
  /\ Constructed /\ step = NoStep /\ tickMath = NoTickCall
  /\ liqMath \in [phase : {"input"}, x : 0..MaxDelta, y : (-MaxDelta)..MaxDelta,
                  result : {Throw}]

\* LiquidityMath.addDelta(x, y): the method has no throw, so every call returns
AddDelta ==
  /\ liqMath.phase = "input"
  /\ liqMath' = [liqMath EXCEPT !.phase = "done",
                                !.result = Return(addDelta(liqMath.x, liqMath.y))]
  /\ UNCHANGED <<pool, nextId, nOps, last, step, tickMath>>

NextDelta == AddDelta

SpecDelta == InitDelta /\ [][NextDelta]_vars

(* ------------------------------------------------------------------ *)
(* Properties                                                          *)
(* ------------------------------------------------------------------ *)
\* the last call was a swap or swapWithSteps that returned
SwapReturned == last.op \in {"swap", "swapWithSteps"} /\ ~last.threw

\* a recorded step ended on the price of its candidate tick, which is in the ledger
CrossedInitialized(s) ==
  s.sqrtPriceNextX96 = getSqrtRatioAtTick(s.tickNext) /\ s.tickNext \in DOMAIN ticks

RECURSIVE SumNet(_)
SumNet(S) ==
  IF S = {} THEN 0
  ELSE LET t == CHOOSE k \in S : TRUE IN ticks[t].liquidityNet + SumNet(S \ {t})

\* the sum of the liquidity of the positions that have t as a boundary
RECURSIVE GrossOf(_, _)
GrossOf(t, i) ==
  IF i = 0 THEN 0
  ELSE (IF positions[i].tickLower = t \/ positions[i].tickUpper = t
        THEN positions[i].liquidity ELSE 0) + GrossOf(t, i - 1)

\* C1 (as claimed): in every state of an initialized pool the stored tick t satisfies
\* getSqrtRatioAtTick(t) <= sqrtPriceX96 < getSqrtRatioAtTick(t + 1).
C1_TickOfPriceStrict ==
  initialized =>
    /\ getSqrtRatioAtTick(tick) <= sqrtPriceX96
    /\ sqrtPriceX96 < getSqrtRatioAtTick(tick + 1)

\* C1 (amended): in every state of an initialized pool
\* getSqrtRatioAtTick(tick) <= sqrtPriceX96 <= getSqrtRatioAtTick(tick + 1); the upper
\* bound is strict after initialize and after every swap whose last step moved the price
\* and did not end, going down, on the price of its candidate tick.
C1_TickBracketsPrice ==
  initialized =>
    /\ getSqrtRatioAtTick(tick) <= sqrtPriceX96
    /\ sqrtPriceX96 <= getSqrtRatioAtTick(tick + 1)
    /\ (last.op = "initialize" /\ ~last.threw =>
          sqrtPriceX96 < getSqrtRatioAtTick(tick + 1))
    /\ (SwapReturned /\ last.steps # <<>> =>
          LET s == last.steps[Len(last.steps)]
          IN (s.sqrtPriceNextX96 # s.sqrtPriceStartX96
              /\ ~(last.zeroForOne /\ s.sqrtPriceNextX96 = getSqrtRatioAtTick(s.tickNext)))
             => sqrtPriceX96 < getSqrtRatioAtTick(tick + 1))

\* a zeroForOne swap ended exactly on the price of an initialized tick
C1_Witness ==
  /\ SwapReturned /\ last.zeroForOne /\ last.steps # <<>>
  /\ CrossedInitialized(last.steps[Len(last.steps)])
  /\ sqrtPriceX96 = getSqrtRatioAtTick(tick + 1)

\* C2: in every state of an initialized pool the active liquidity equals the sum of
\* liquidityNet over the ledger ticks t <= tick.
C2_LiquidityIsNetSum ==
  initialized => liquidity = SumNet({t \in DOMAIN ticks : t <= tick})

\* a swap crossed an initialized tick into a range: active liquidity is positive after it
C2_Witness ==
  /\ SwapReturned
  /\ \E i \in 1..Len(last.steps) : CrossedInitialized(last.steps[i])
  /\ liquidity > 0
  /\ liquidity # last.pre.liquidity

\* C3: in every state of an initialized pool MIN_SQRT_RATIO <= sqrtPriceX96 < MAX_SQRT_RATIO.
C3_PriceInBounds ==
  initialized => sqrtPriceX96 >= MIN_SQRT_RATIO /\ sqrtPriceX96 < MAX_SQRT_RATIO

\* a swap ran the price up to the default limit
C3_Witness ==
  SwapReturned /\ ~last.zeroForOne /\ sqrtPriceX96 = MAX_SQRT_RATIO - 1
  /\ last.pre.sqrtPriceX96 < sqrtPriceX96

\* C4: a tick is a key of the ledger iff the positions that have it as a boundary
\* have positive liquidity in total, and every entry's liquidityGross is that total (> 0).
C4_LedgerIffGross ==
  /\ \A t \in DOMAIN ticks : ticks[t].liquidityGross > 0
  /\ \A t \in MIN_TICK..MAX_TICK :
       (t \in DOMAIN ticks) <=> (GrossOf(t, Len(positions)) > 0)
  /\ \A t \in DOMAIN ticks : ticks[t].liquidityGross = GrossOf(t, Len(positions))

\* removePosition took a tick out of the ledger and left another in
C4_Witness ==
  /\ last.op = "removePosition" /\ ~last.threw
  /\ DOMAIN ticks # DOMAIN last.pre.ticks
  /\ DOMAIN ticks # {}

\* C5: the active liquidity is never negative.
C5_LiquidityNonNegative == liquidity >= 0

\* a swap crossed out of the last range: liquidity went from positive to zero
C5_Witness ==
  /\ SwapReturned
  /\ \E i \in 1..Len(last.steps) : CrossedInitialized(last.steps[i])
  /\ last.pre.liquidity > 0 /\ liquidity = 0

\* the last call was swap, swapWithSteps or simulateSwap and returned
AnySwapReturned == last.op \in {"swap", "swapWithSteps", "simulateSwap"} /\ ~last.threw

\* C6: a zeroForOne swap never ends on a higher price than it started from, a
\* oneForZero swap never on a lower one, and the same holds for every step of the loop.
C6_PriceMonotone ==
  AnySwapReturned =>
    /\ IF last.zeroForOne
       THEN last.result.sqrtPriceX96After <= last.pre.sqrtPriceX96
       ELSE last.result.sqrtPriceX96After >= last.pre.sqrtPriceX96
    /\ \A i \in 1..Len(last.steps) :
         IF last.zeroForOne
         THEN last.steps[i].sqrtPriceNextX96 <= last.steps[i].sqrtPriceStartX96
         ELSE last.steps[i].sqrtPriceNextX96 >= last.steps[i].sqrtPriceStartX96
    /\ (last.op # "simulateSwap" => sqrtPriceX96 = last.result.sqrtPriceX96After)

\* an exact-output swap moved the price down over several steps
C6_Witness ==
  /\ SwapReturned /\ last.zeroForOne /\ last.amountSpecified < 0
  /\ Len(last.steps) >= 2
  /\ sqrtPriceX96 < last.pre.sqrtPriceX96
  /\ \E i \in 1..Len(last.steps) : last.steps[i].amountOut > 0

\* C7: for every computeSwapStep result, feeAmount >= 0; with amountRemaining >= 0,
\* amountIn + feeAmount <= amountRemaining, with equality when the step did not
\* reach the target price.
C7_FeeConservation ==
  (step.phase = "done" /\ ~step.result.thrown) =>
    /\ step.result.feeAmount >= 0
    /\ (step.amountRemaining >= 0 =>
          /\ step.result.amountIn + step.result.feeAmount <= step.amountRemaining
          /\ (step.result.sqrtRatioNextX96 # step.sqrtRatioTargetX96 =>
                step.result.amountIn + step.result.feeAmount = step.amountRemaining))

\* an exact-input step that stopped short of its target with a positive input and fee
C7_Witness ==
  /\ step.phase = "done" /\ ~step.result.thrown
  /\ step.amountRemaining > 0
  /\ step.result.sqrtRatioNextX96 # step.sqrtRatioTargetX96
  /\ step.result.sqrtRatioNextX96 # step.sqrtRatioCurrentX96
  /\ step.result.amountIn > 0 /\ step.result.feeAmount > 0

\* C8: swap(p) called right after simulateSwap(p) returns what simulateSwap(p)
\* returned (and throws when it threw).
C8_SimulateMatchesSwap ==
  (last.op = "swap" /\ last.simulated # <<>>) =>
    /\ last.simulated[1].threw = last.threw
    /\ last.simulated[1].result = last.result

\* a swap that moved the price was previewed by simulateSwap right before
C8_Witness ==
  /\ last.op = "swap" /\ last.simulated # <<>> /\ ~last.threw
  /\ last.result.amountOut > 0
  /\ sqrtPriceX96 # last.pre.sqrtPriceX96

\* C9: simulateSwap leaves the pool as it was, whether it returns or throws.
C9_SimulateFrame == last.op = "simulateSwap" => PoolState = last.pre

\* simulateSwap returned the result of a swap that moves price, tick and liquidity
C9_Witness ==
  /\ last.op = "simulateSwap" /\ ~last.threw
  /\ last.result.sqrtPriceX96After # sqrtPriceX96
  /\ last.result.tickAfter # tick
  /\ last.result.liquidityAfter # liquidity

\* C10: removePosition of the position that the call right before (addLiquidity)
\* returned restores the active liquidity, the ledger and the positions list.
C10_AddRemoveRestores ==
  (last.op = "removePosition" /\ ~last.threw /\ last.preAdd # <<>>) =>
    /\ liquidity = last.preAdd[1].liquidity
    /\ ticks = last.preAdd[1].ticks
    /\ positions = last.preAdd[1].positions

\* the position added and removed was in range and shared a tick with another position
C10_Witness ==
  /\ last.op = "removePosition" /\ ~last.threw /\ last.preAdd # <<>>
  /\ last.preAdd[1].positions # <<>>
  /\ last.pre.liquidity # liquidity
  /\ \E t \in DOMAIN ticks : last.pre.ticks[t].liquidityGross # ticks[t].liquidityGross

\* C11: every swap and swapWithSteps call on an initialized pool ends: the loop is
\* left after finitely many iterations, a returning call with nothing remaining or
\* with the price on the price limit; every iteration but the last ends on the
\* price of an initialized tick, each one strictly further in the swap direction,
\* so there are at most as many iterations as ledger ticks, plus one
C11_SwapTerminates ==
  (last.op \in {"swap", "swapWithSteps"} /\ last.pre.initialized) =>
    /\ ~last.diverged
    /\ ~last.threw =>
         (last.remaining = 0 \/ last.result.sqrtPriceX96After = last.sqrtPriceLimitX96)
    /\ Len(last.steps) <= Cardinality(DOMAIN last.pre.ticks) + 1
    /\ \A i \in 1..(Len(last.steps) - 1) :
         /\ last.steps[i].tickNext \in DOMAIN last.pre.ticks
         /\ last.steps[i].sqrtPriceNextX96 = getSqrtRatioAtTick(last.steps[i].tickNext)
         /\ IF last.zeroForOne
            THEN last.steps[i + 1].tickNext < last.steps[i].tickNext
            ELSE last.steps[i + 1].tickNext > last.steps[i].tickNext

\* a swap that crossed two initialized ticks and then ran out of amount or hit its limit
C11_Witness ==
  /\ last.op \in {"swap", "swapWithSteps"} /\ ~last.threw /\ last.pre.initialized
  /\ Len(last.steps) >= 3

\* C12: when initialize, addLiquidity, removePosition, swap or swapWithSteps throws,
\* the pool (initialized, sqrtPriceX96, tick, liquidity, ticks, positions) is what
\* it was before the call
C12_ThrowLeavesPool ==
  (last.threw /\ last.op \in {"initialize", "addLiquidity", "removePosition", "swap",
                               "swapWithSteps"})
    => PoolState = last.pre

\* a call that threw on an initialized pool that holds a position
C12_Witness ==
  /\ last.threw /\ last.op \in {"addLiquidity", "swapWithSteps"}
  /\ initialized /\ positions # <<>> /\ PoolState = last.pre

\* C13: swapWithSteps without a price limit uses MIN_SQRT_RATIO + 1 when zeroForOne
\* and MAX_SQRT_RATIO - 1 otherwise, and a given limit as it is; it throws before
\* the loop with RATIO_MIN / RATIO_MAX when the limit is at or beyond the global
\* bound in the swap direction, with RATIO_CURRENT when the limit is not strictly on
\* the swap's side of the current price, and with neither otherwise, the final
\* price of a returning call lying between the limit and the price before
C13_PriceLimit ==
  (last.op = "swapWithSteps" /\ last.pre.initialized) =>
    LET lim == last.sqrtPriceLimitX96
        beyond == IF last.zeroForOne THEN lim <= MIN_SQRT_RATIO
                  ELSE lim >= MAX_SQRT_RATIO
        wrongSide == IF last.zeroForOne THEN lim >= last.pre.sqrtPriceX96
                     ELSE lim <= last.pre.sqrtPriceX96
    IN /\ lim = IF last.limit # <<>> THEN last.limit[1]
                ELSE IF last.zeroForOne THEN MIN_SQRT_RATIO + 1
                ELSE MAX_SQRT_RATIO - 1
       /\ beyond => /\ last.threw /\ last.steps = <<>> /\ PoolState = last.pre
                    /\ last.error = IF last.zeroForOne THEN "RATIO_MIN" ELSE "RATIO_MAX"
       /\ (~beyond /\ wrongSide) =>
            /\ last.threw /\ last.steps = <<>> /\ PoolState = last.pre
            /\ last.error = "RATIO_CURRENT"
       /\ (~beyond /\ ~wrongSide) =>
            /\ last.error \notin {"RATIO_MIN", "RATIO_MAX", "RATIO_CURRENT"}
            /\ ~last.threw =>
                 IF last.zeroForOne
                 THEN lim <= sqrtPriceX96 /\ sqrtPriceX96 <= last.pre.sqrtPriceX96
                 ELSE lim >= sqrtPriceX96 /\ sqrtPriceX96 >= last.pre.sqrtPriceX96

\* a swapWithSteps without a limit that moved the price onto the default limit
C13_Witness ==
  /\ last.op = "swapWithSteps" /\ last.pre.initialized /\ ~last.threw
  /\ last.limit = <<>> /\ last.zeroForOne
  /\ sqrtPriceX96 = MIN_SQRT_RATIO + 1 /\ last.pre.sqrtPriceX96 > MIN_SQRT_RATIO + 1

\* C14: while the pool is not initialized (just constructed, or after reset),
\* addLiquidity, removePosition, swap, swapWithSteps, simulateSwap and
\* analyzeSlippage all throw and leave the pool as it was
C14_UninitializedFails ==
  (~last.pre.initialized
     /\ last.op \in {"addLiquidity", "removePosition", "swap", "swapWithSteps",
                      "simulateSwap", "analyzeSlippage"})
    => (last.threw /\ PoolState = last.pre)

\* a call that threw on a pool that was reset after it held a position
C14_Witness ==
  /\ ~last.pre.initialized /\ last.threw /\ nextId > 0
  /\ last.op \in {"removePosition", "analyzeSlippage"}

\* C15: initialize throws 'Pool already initialized' on an initialized pool and
\* 'Price must be positive' for a price <= 0 on one that is not; an initialize that
\* returns leaves initialized true, sqrtPriceX96 within [MIN_SQRT_RATIO,
\* MAX_SQRT_RATIO) and equal to the converted price moved into those bounds, and
\* tick the tick of that price; no other call takes the pool from uninitialized to
\* initialized
C15_Initialize ==
  /\ last.op = "initialize" =>
       /\ last.pre.initialized =>
            (last.threw /\ last.error = "Pool already initialized")
       /\ (~last.pre.initialized /\ ~last.price[1]) =>
            (last.threw /\ last.error = "Price must be positive")
       /\ ~last.threw =>
            /\ initialized
            /\ MIN_SQRT_RATIO <= sqrtPriceX96 /\ sqrtPriceX96 < MAX_SQRT_RATIO
            /\ LET converted == priceToSqrtPriceX96(last.price[2])
               IN sqrtPriceX96 = IF converted < MIN_SQRT_RATIO THEN MIN_SQRT_RATIO
                                 ELSE IF converted >= MAX_SQRT_RATIO
                                      THEN MAX_SQRT_RATIO - 1
                                      ELSE converted
            /\ getTickAtSqrtRatio(sqrtPriceX96) = Return(tick)
  /\ (~last.pre.initialized /\ initialized) => (last.op = "initialize" /\ ~last.threw)

\* a second initialize with a price <= 0, on a pool initialized to a clamped price
C15_Witness ==
  /\ last.op = "initialize" /\ last.threw /\ ~last.price[1]
  /\ initialized /\ sqrtPriceX96 = MAX_SQRT_RATIO - 1

\* liquidityNet and liquidityGross of a tick in a ledger, zero for a tick without entry
NetAt(tks, t) == IF t \in DOMAIN tks THEN tks[t].liquidityNet ELSE 0

GrossAt(tks, t) == IF t \in DOMAIN tks THEN tks[t].liquidityGross ELSE 0

\* C16: an addLiquidity that returns liquidity L adds L to liquidityNet of the
\* snapped lower tick, subtracts L from liquidityNet of the snapped upper tick, adds
\* L to liquidityGross of both, adds L to the active liquidity exactly when
\* tickLower <= tick < tickUpper, appends one position, and leaves sqrtPriceX96,
\* tick and every other ledger entry as they were
C16_AddLiquidityEffect ==
  (last.op = "addLiquidity" /\ ~last.threw) =>
    LET L == last.add.liquidity
        lo == last.add.tickLower
        up == last.add.tickUpper
        pre == last.pre
    IN /\ lo = nearestUsableTick(last.args[1], tickSpacing)
       /\ up = nearestUsableTick(last.args[2], tickSpacing)
       /\ NetAt(ticks, lo) = NetAt(pre.ticks, lo) + L
       /\ NetAt(ticks, up) = NetAt(pre.ticks, up) - L
       /\ GrossAt(ticks, lo) = GrossAt(pre.ticks, lo) + L
       /\ GrossAt(ticks, up) = GrossAt(pre.ticks, up) + L
       /\ \A t \in (DOMAIN ticks \cup DOMAIN pre.ticks) \ {lo, up} :
            t \in DOMAIN ticks /\ t \in DOMAIN pre.ticks /\ ticks[t] = pre.ticks[t]
       /\ liquidity = IF lo <= pre.tick /\ pre.tick < up THEN pre.liquidity + L
                      ELSE pre.liquidity
       /\ positions = Append(pre.positions,
                             [id |-> last.add.id, tickLower |-> lo, tickUpper |-> up,
                              liquidity |-> L])
       /\ \A i \in 1..Len(pre.positions) : pre.positions[i].id # last.add.id
       /\ sqrtPriceX96 = pre.sqrtPriceX96 /\ tick = pre.tick /\ initialized

\* a second position whose lower tick is the current tick: it is in range
C16_Witness ==
  /\ last.op = "addLiquidity" /\ ~last.threw
  /\ last.add.tickLower = last.pre.tick
  /\ last.pre.positions # <<>>
  /\ liquidity = last.pre.liquidity + last.add.liquidity

\* C17: for an addLiquidity that returns: a range entirely below the current price
\* takes amount0 = 0 and amount1 > 0, a range entirely above it takes amount1 = 0
\* and amount0 > 0, and a range that holds the current price takes the amounts
\* between the current price and the range's two bounds
C17_AddLiquidityAmounts ==
  (last.op = "addLiquidity" /\ ~last.threw) =>
    LET price == last.pre.sqrtPriceX96
        sqrtRatioAX96 == getSqrtRatioAtTick(last.add.tickLower)
        sqrtRatioBX96 == getSqrtRatioAtTick(last.add.tickUpper)
        L == last.add.liquidity
    IN /\ sqrtRatioBX96 <= price => (last.add.amount0 = 0 /\ last.add.amount1 > 0)
       /\ price < sqrtRatioAX96 => (last.add.amount1 = 0 /\ last.add.amount0 > 0)
       /\ (sqrtRatioAX96 <= price /\ price < sqrtRatioBX96) =>
            /\ last.add.amount0 = getAmount0Delta(price, sqrtRatioBX96, L, TRUE)
            /\ last.add.amount1 = getAmount1Delta(sqrtRatioAX96, price, L, TRUE)

\* a position added below the current price: it takes token1 only
C17_Witness ==
  /\ last.op = "addLiquidity" /\ ~last.threw
  /\ getSqrtRatioAtTick(last.add.tickUpper) <= last.pre.sqrtPriceX96
  /\ last.add.amount0 = 0 /\ last.add.amount1 > 0

\* C18: addLiquidity on an initialized pool throws when, after snapping both ticks
\* to the tick spacing, tickLower >= tickUpper, or a tick is outside
\* [MIN_TICK, MAX_TICK], or the liquidity computed from the desired amounts is not
\* positive; no stored position has tickLower >= tickUpper, a tick out of bounds or
\* a liquidity that is not positive
C18_AddLiquidityValidation ==
  /\ (last.op = "addLiquidity" /\ last.pre.initialized) =>
       LET lo == nearestUsableTick(last.args[1], tickSpacing)
           up == nearestUsableTick(last.args[2], tickSpacing)
           outOfBounds == lo < MIN_TICK \/ lo > MAX_TICK \/ up < MIN_TICK \/ up > MAX_TICK
           liq == maxLiquidityForAmounts(last.pre.sqrtPriceX96, getSqrtRatioAtTick(lo),
                                         getSqrtRatioAtTick(up), last.args[3],
                                         last.args[4], TRUE)
       IN /\ lo >= up =>
               (last.threw /\ last.error = "tickLower must be less than tickUpper")
          /\ (lo < up /\ outOfBounds) => (last.threw /\ last.error = "Tick out of bounds")
          /\ (lo < up /\ ~outOfBounds /\ liq <= 0) =>
               (last.threw /\ last.error = "Insufficient amounts for liquidity")
          /\ last.threw => PoolState = last.pre
  /\ \A i \in 1..Len(positions) :
       /\ positions[i].tickLower < positions[i].tickUpper
       /\ MIN_TICK <= positions[i].tickLower /\ positions[i].tickUpper <= MAX_TICK
       /\ positions[i].liquidity > 0

\* an addLiquidity with zero amounts over a valid range, thrown next to a stored position
C18_Witness ==
  /\ last.op = "addLiquidity" /\ last.pre.initialized /\ last.threw
  /\ last.error = "Insufficient amounts for liquidity"
  /\ positions # <<>>

\* C19: on an initialized pool without positions a swap in either direction returns,
\* with amountOut = 0 and amountIn = 0, and does not throw
C19_ZeroLiquiditySwap ==
  (last.op \in {"swap", "simulateSwap"} /\ last.pre.initialized
     /\ last.pre.positions = <<>>)
    => (~last.threw /\ last.result.amountOut = 0 /\ last.result.amountIn = 0)

\* C20: an exact-input zeroForOne swap followed at once by an exact-input oneForZero swap
\* of the whole first output never returns more token0 than the first swap took in
C20_RoundTripNoProfit ==
  (last.op = "swap" /\ last.forward # <<>> /\ ~last.threw)
    => last.result.amountOut <= last.forward[1].amountIn

\* a round trip through liquidity that crossed a tick on the way down and returned token0
C20_Witness ==
  /\ last.op = "swap" /\ last.forward # <<>> /\ ~last.threw
  /\ last.forward[1].amountIn > 0
  /\ last.result.amountOut > 0
  /\ last.result.amountOut < last.forward[1].amountIn
  /\ Len(last.steps) >= 2

\* C21: for every tick t of [MIN_TICK, MAX_TICK], getTickAtSqrtRatio(getSqrtRatioAtTick(t))
\* returns t
C21_TickRoundTrip ==
  tickMath.phase = "tick"
    => (~tickMath.result.thrown /\ tickMath.result.value = tickMath.tick)

\* C21 as the code has it: the round trip returns t for every tick below MAX_TICK; the ratio
\* of MAX_TICK is MAX_SQRT_RATIO, which getTickAtSqrtRatio refuses
C21_TickRoundTripBelowMax ==
  /\ tickMath.phase = "ratio"
       => (/\ MIN_SQRT_RATIO <= tickMath.sqrtRatioX96
           /\ tickMath.sqrtRatioX96 <= MAX_SQRT_RATIO
           /\ (tickMath.tick = MIN_TICK) = (tickMath.sqrtRatioX96 = MIN_SQRT_RATIO)
           /\ (tickMath.tick = MAX_TICK) = (tickMath.sqrtRatioX96 = MAX_SQRT_RATIO))
  /\ tickMath.phase = "tick"
       => IF tickMath.tick < MAX_TICK
          THEN ~tickMath.result.thrown /\ tickMath.result.value = tickMath.tick
          ELSE tickMath.result.thrown

\* the round trip of the last tick below MAX_TICK
C21_Witness ==
  /\ tickMath.phase = "tick" /\ tickMath.tick = MAX_TICK - 1
  /\ ~tickMath.result.thrown /\ tickMath.result.value = MAX_TICK - 1

\* C22: addDelta(x, y) fails when y is negative and |y| > x, and returns x + y otherwise
C22_AddDeltaDetectsUnderflow ==
  liqMath.phase = "done"
    => IF liqMath.y < 0 /\ -liqMath.y > liqMath.x
       THEN liqMath.result.thrown
       ELSE ~liqMath.result.thrown /\ liqMath.result.value = liqMath.x + liqMath.y

\* the step ended on the price of its candidate tick
StepOnTick(s) == s.sqrtPriceNextX96 = getSqrtRatioAtTick(s.tickNext)

\* the liquidity and the tick after a step that ended on its candidate tick
CrossedLiquidity(s, h) ==
  IF h.tickNextInitialized
  THEN s.liquidity + (IF last.zeroForOne THEN -NetAt(last.pre.ticks, s.tickNext)
                      ELSE NetAt(last.pre.ticks, s.tickNext))
  ELSE s.liquidity

CrossedTick(s) == IF last.zeroForOne THEN s.tickNext - 1 ELSE s.tickNext

\* every iteration starts where the one before it ended
TrailChained ==
  /\ Len(last.trail) = Len(last.steps)
  /\ \A i \in 1..Len(last.steps) :
        /\ last.steps[i].liquidity
             = (IF i = 1 THEN last.pre.liquidity ELSE last.trail[i - 1].liquidityAfter)
        /\ last.trail[i].tickBefore
             = (IF i = 1 THEN last.pre.tick ELSE last.trail[i - 1].tickAfter)
        /\ i = Len(last.steps)
             => (/\ last.result.tickAfter = last.trail[i].tickAfter
                 /\ last.result.liquidityAfter = last.trail[i].liquidityAfter)

RECURSIVE SumIn(_, _)
SumIn(steps, n) ==
  IF n = 0 THEN 0 ELSE SumIn(steps, n - 1) + steps[n].amountIn + steps[n].feeAmount

RECURSIVE SumOut(_, _)
SumOut(steps, n) == IF n = 0 THEN 0 ELSE SumOut(steps, n - 1) + steps[n].amountOut

\* C24: for every returning swap, result.amountIn is the sum of the steps' amountIn +
\* feeAmount and result.amountOut the sum of the steps' amountOut, in both modes; amountIn
\* <= amountSpecified for exact input, amountOut <= |amountSpecified| for exact output,
\* and both are >= 0
C24_ResultIsSumOfSteps ==
  AnySwapReturned =>
    /\ last.result.amountIn = SumIn(last.steps, Len(last.steps))
    /\ last.result.amountOut = SumOut(last.steps, Len(last.steps))
    /\ last.result.amountIn >= 0 /\ last.result.amountOut >= 0
    /\ last.amountSpecified >= 0 => last.result.amountIn <= last.amountSpecified
    /\ last.amountSpecified < 0 => last.result.amountOut <= -last.amountSpecified

\* C25: computeSwapStep with liquidity = 0 returns the target price with amountIn = 0,
\* amountOut = 0 and feeAmount = 0 and does not throw, for every pair of prices, every
\* amountRemaining of either sign and every fee
C25_ZeroLiquidityStep ==
  (step.phase = "done" /\ step.liquidity = 0) =>
    /\ ~step.result.thrown
    /\ step.result.sqrtRatioNextX96 = step.sqrtRatioTargetX96
    /\ step.result.amountIn = 0 /\ step.result.amountOut = 0 /\ step.result.feeAmount = 0

\* an exact-output step without liquidity between two different prices
C25_Witness ==
  /\ step.phase = "done" /\ step.liquidity = 0 /\ step.amountRemaining < 0
  /\ step.feePips = fee
  /\ step.sqrtRatioCurrentX96 < step.sqrtRatioTargetX96
  /\ ~step.result.thrown /\ step.result.sqrtRatioNextX96 = step.sqrtRatioTargetX96

\* C26: for every input, the computeSwapStep of the JavaScript VirtualPool of the
\* comparison tests returns the same sqrtRatioNextX96, amountIn, amountOut and feeAmount
\* as SwapMath.computeSwapStep
C26_JsStepEqualsTs ==
  step.phase = "done" => step.js = step.result

\* the liquidity of the positions that start at t minus that of the positions that end at t
RECURSIVE NetOf(_, _)
NetOf(t, i) ==
  IF i = 0 THEN 0
  ELSE (IF positions[i].tickLower = t THEN positions[i].liquidity ELSE 0)
       - (IF positions[i].tickUpper = t THEN positions[i].liquidity ELSE 0)
       + NetOf(t, i - 1)

\* C27: for every tick t, liquidityGross(t) is the sum of the liquidity of the stored
\* positions with t as tickLower or tickUpper and liquidityNet(t) the sum over the positions
\* with tickLower = t minus the sum over those with tickUpper = t, an absent tick counting
\* as zero; the liquidityNet values of the ledger sum to zero
C27_LedgerMatchesPositions ==
  /\ \A t \in MIN_TICK..MAX_TICK :
        /\ GrossAt(ticks, t) = GrossOf(t, Len(positions))
        /\ NetAt(ticks, t) = NetOf(t, Len(positions))
  /\ DOMAIN ticks \subseteq MIN_TICK..MAX_TICK
  /\ SumNet(DOMAIN ticks) = 0

\* two stored positions share a boundary tick, whose entry holds the liquidity of both
C27_Witness ==
  /\ Len(positions) = 2
  /\ \E t \in DOMAIN ticks :
        /\ ticks[t].liquidityGross = positions[1].liquidity + positions[2].liquidity
        /\ ticks[t].liquidityNet # positions[1].liquidity
        /\ ticks[t].liquidityNet # -positions[1].liquidity
  /\ Cardinality(DOMAIN ticks) = 3

\* C28: from an initialized state whose price lies strictly between
\* MIN_SQRT_RATIO + 1 and MAX_SQRT_RATIO - 1 and whose position liquidities
\* fit in 128 bits, a swap with the default price limit never throws, in
\* either direction and for an amountSpecified of either sign
DefaultLimitCall ==
  last.op \in {"swap", "simulateSwap", "swapWithSteps"} /\ last.limit = <<>>

Exhausted ==
  /\ last.op \in {"swap", "swapWithSteps"} /\ ~last.threw
  /\ last.limit = <<>>
  /\ last.remaining # 0

\* the liquidityNet applied by the first n steps of the last swap
RECURSIVE CrossedNet(_)
CrossedNet(n) ==
  IF n = 0 THEN 0
  ELSE CrossedNet(n - 1)
       + (IF StepOnTick(last.steps[n]) /\ last.trail[n].tickNextInitialized
          THEN IF last.zeroForOne THEN -NetAt(last.pre.ticks, last.steps[n].tickNext)
               ELSE NetAt(last.pre.ticks, last.steps[n].tickNext)
          ELSE 0)

\* C29: a swap that runs out of liquidity before the specified amount is consumed commits
\* the price limit (MIN_SQRT_RATIO + 1 or MAX_SQRT_RATIO - 1), the tick of that price and
\* the liquidity left after the crossed ticks; a default-limit swap in the same direction
\* then throws RATIO_CURRENT, and a swap that throws RATIO_CURRENT changes nothing
C29_ExhaustedSwapStopsAtLimit ==
  /\ Exhausted =>
       /\ last.sqrtPriceLimitX96
            = (IF last.zeroForOne THEN MIN_SQRT_RATIO + 1 ELSE MAX_SQRT_RATIO - 1)
       /\ sqrtPriceX96 = last.sqrtPriceLimitX96
       /\ tick = getTickAtSqrtRatio(last.sqrtPriceLimitX96).value
       /\ liquidity = last.pre.liquidity + CrossedNet(Len(last.steps))
       /\ \A a \in SwapAmounts \cup {0} :
             \E out \in {swapOutcome(last.zeroForOne, a, <<>>)} :
                out.thrown /\ out.error = "RATIO_CURRENT"
  /\ (last.op \in {"swap", "swapWithSteps", "simulateSwap"} /\ last.threw
      /\ last.error = "RATIO_CURRENT")
       => PoolState = last.pre

\* a default-limit swap throws RATIO_CURRENT on a pool with positions that a swap
\* in the same direction has driven to the limit, all ranges crossed
C29_Witness ==
  /\ last.op = "swap" /\ last.threw /\ last.error = "RATIO_CURRENT"
  /\ last.limit = <<>>
  /\ last.pre.sqrtPriceX96 = last.sqrtPriceLimitX96
  /\ last.pre.positions # <<>>
  /\ last.pre.liquidity = 0
  /\ PoolState = last.pre

\* the last call was analyzeSlippage or getAmountsAtSlippageTargets and returned
AnalysisReturned ==
  last.op \in {"analyzeSlippage", "getAmountsAtSlippageTargets"} /\ ~last.threw

\* C30: analyzeSlippage, and getAmountsAtSlippageTargets through it, leave the price, the
\* tick, the liquidity, the ticks ledger and the positions as they were whenever they
\* return, also when sampled swaps throw; every sampled swap starts from the saved state
C30_AnalysisRestoresState ==
  AnalysisReturned =>
    /\ PoolState = last.pre
    /\ \A i \in 1..Len(last.samples) :
          /\ last.samples[i].start.sqrtPriceX96 = last.pre.sqrtPriceX96
          /\ last.samples[i].start.tick = last.pre.tick
          /\ last.samples[i].start.liquidity = last.pre.liquidity

\* two sampled swaps returned, the earlier of them moved the price, crossed out of a
\* range and changed the liquidity
C30_Witness ==
  /\ AnalysisReturned
  /\ \E i, j \in 1..Len(last.samples) :
        /\ i < j
        /\ ~last.samples[i].thrown /\ ~last.samples[j].thrown
        /\ last.samples[i].result.sqrtPriceX96After # last.pre.sqrtPriceX96
        /\ last.samples[i].result.liquidityAfter # last.pre.liquidity
  /\ PoolState = last.pre

====
